---------------------------- MODULE Spec2Model ----------------------------
(***************************************************************************)
(* Account rotation of opencode-antigravity-auth: HealthScoreTracker,      *)
(* TokenBucketTracker, selectHybridAccount (rotation module,               *)
(* src/unnamed/part_000 lines 588-1043) and QuotaGuardCache /              *)
(* preflightQuotaCheck (src/src/plugin/quota-guard.ts).                    *)
(*                                                                         *)
(* Numbers.  Date.now() is an integer number of milliseconds.  Health      *)
(* scores are integers for integer configurations (the recovery is         *)
(* floored by the code).  Token balances are reals in the code; the clock  *)
(* of the token specifications advances in steps for which the regenerated *)
(* amount (ms / 60000 * regenerationRatePerMinute) is a whole number, so   *)
(* the balances of the model are the balances of the code.                 *)
(***************************************************************************)
EXTENDS Integers, Sequences, FiniteSets

VARIABLES
    now,                  \* Date.now(), milliseconds
    healthConfig,         \* HealthScoreTracker.config
    scores,               \* HealthScoreTracker.scores : Map<number, HealthScoreState>
    tokenConfig,          \* TokenBucketTracker.config
    buckets,              \* TokenBucketTracker.buckets : Map<number, TokenBucketState>
    accounts,             \* the AccountWithMetrics[] handed to the selection functions
    currentAccountIndex,  \* selectHybridAccount's currentAccountIndex argument
    guardConfig,          \* QuotaGuardConfig (switchRemainingPercent, quotaCacheTtlSeconds)
    cache,                \* QuotaGuardCache.cache : Map<number, CacheEntry>
    pc,                   \* per cooperative task: where it is suspended
    task,                 \* per cooperative task: its locals
    admitted,             \* per account: consume calls that returned true since the last regeneration
    episodeBalance,       \* per account: getTokens at the last regeneration (or at construction)
    history,              \* what the callers did so far, kept apart from the objects' own fields
    steps,                \* operations performed so far (bounds the exploration)
    lastOp                \* the last call made: its arguments, its return value, the state it found

vars == <<now, healthConfig, scores, tokenConfig, buckets, accounts,
          currentAccountIndex, guardConfig, cache, pc, task, admitted,
          episodeBalance, history, steps, lastOp>>

(***************************************************************************)
(* Bounds of the exploration.                                              *)
(***************************************************************************)
NumAccounts == 2
MaxSteps == 4
NumTasks == 2

AccountIds == 0 .. (NumAccounts - 1)
Tasks == 1 .. NumTasks

(* `return null` of selectHybridAccount: no account index. *)
NullIndex == -1

Min(a, b) == IF a < b THEN a ELSE b
Max(a, b) == IF a > b THEN a ELSE b

(* Map.set / Map.delete / Map.has on a function used as a JavaScript Map. *)
EmptyMap == [k \in {} |-> 0]
MapHas(m, k) == k \in DOMAIN m
MapSet(m, k, v) == [x \in (DOMAIN m) \cup {k} |-> IF x = k THEN v ELSE m[x]]
MapDelete(m, k) == [x \in (DOMAIN m) \ {k} |-> m[x]]

(***************************************************************************)
(* HEALTH SCORE SYSTEM                                                     *)
(***************************************************************************)
DEFAULT_HEALTH_SCORE_CONFIG ==
    [initial |-> 70, successReward |-> 1, rateLimitPenalty |-> -10,
     failurePenalty |-> -20, recoveryRatePerHour |-> 2, minUsable |-> 50,
     maxScore |-> 100]

(* Configurations the constructor is given: the default and partial       *)
(* overrides of it, each within the ranges config/schema.ts accepts        *)
(* (initial 0..100, success_reward 0..10, rate_limit_penalty -50..0,       *)
(* failure_penalty -100..0, recovery_rate_per_hour 0..20, min_usable       *)
(* 0..100, max_score 50..100).                                             *)
HealthConfigs ==
    { DEFAULT_HEALTH_SCORE_CONFIG,
      [DEFAULT_HEALTH_SCORE_CONFIG EXCEPT !.initial = 95, !.successReward = 10],
      [DEFAULT_HEALTH_SCORE_CONFIG EXCEPT !.initial = 15, !.recoveryRatePerHour = 4],
      [DEFAULT_HEALTH_SCORE_CONFIG EXCEPT !.maxScore = 60],
      [DEFAULT_HEALTH_SCORE_CONFIG EXCEPT !.failurePenalty = -10] }

(* Elapsed times between two calls on the health tracker. *)
HealthClockSteps == { 20 * 60 * 1000, 30 * 60 * 1000, 12 * 60 * 60 * 1000 }

(* A getScore that reads the stored score, with no recovery. *)
getScore_NoRecovery(accountIndex) ==
    IF ~MapHas(scores, accountIndex)
    THEN healthConfig.initial
    ELSE Min(healthConfig.maxScore, scores[accountIndex].score)

(* A getScore that credits recovery rounded to the nearest point. *)
getScore_RoundedRecovery(accountIndex) ==
    IF ~MapHas(scores, accountIndex)
    THEN healthConfig.initial
    ELSE LET state == scores[accountIndex]
             recoveredPoints ==
                 ((now - state.lastUpdated) * healthConfig.recoveryRatePerHour
                     + 1000 * 60 * 30) \div (1000 * 60 * 60)
         IN  Min(healthConfig.maxScore, state.score + recoveredPoints)

(* HealthScoreTracker.getScore: Math.floor of a non-negative quotient is \div. *)
getScore(accountIndex) ==
    IF ~MapHas(scores, accountIndex)
    THEN healthConfig.initial
    ELSE LET state == scores[accountIndex]
             recoveredPoints ==
                 ((now - state.lastUpdated) * healthConfig.recoveryRatePerHour)
                     \div (1000 * 60 * 60)
         IN  Min(healthConfig.maxScore, state.score + recoveredPoints)

getConsecutiveFailures(accountIndex) ==
    IF MapHas(scores, accountIndex) THEN scores[accountIndex].consecutiveFailures ELSE 0

isUsable(accountIndex) == getScore(accountIndex) >= healthConfig.minUsable

(* A snapshot of the stored scores, recovery left out. *)
getSnapshot_StoredScores ==
    [index \in DOMAIN scores |->
        [score |-> scores[index].score,
         consecutiveFailures |-> getConsecutiveFailures(index)]]

(* HealthScoreTracker.getSnapshot: the Map it returns. *)
getSnapshot ==
    [index \in DOMAIN scores |->
        [score |-> getScore(index),
         consecutiveFailures |-> getConsecutiveFailures(index)]]

(* state?.lastSuccess ?? 0 *)
lastSuccessOf(accountIndex) ==
    IF MapHas(scores, accountIndex) THEN scores[accountIndex].lastSuccess ELSE 0

(* A success that adds the reward to the stored score, recovery left out. *)
successState_IgnoresRecovery(accountIndex) ==
    [score |-> Min(healthConfig.maxScore,
                   (IF MapHas(scores, accountIndex) THEN scores[accountIndex].score
                    ELSE healthConfig.initial) + healthConfig.successReward),
     lastUpdated |-> now, lastSuccess |-> now, consecutiveFailures |-> 0]

(* A failure whose penalty can take the score below zero. *)
failureState_Unclamped(accountIndex) ==
    [score |-> getScore(accountIndex) + healthConfig.failurePenalty,
     lastUpdated |-> now,
     lastSuccess |-> IF MapHas(scores, accountIndex)
                     THEN scores[accountIndex].lastSuccess ELSE 0,
     consecutiveFailures |->
         (IF MapHas(scores, accountIndex)
          THEN scores[accountIndex].consecutiveFailures ELSE 0) + 1]

(* A rate limit that starts the failure count anew. *)
rateLimitState_CountsOnce(accountIndex) ==
    [score |-> Max(0, getScore(accountIndex) + healthConfig.rateLimitPenalty),
     lastUpdated |-> now,
     lastSuccess |-> IF MapHas(scores, accountIndex)
                     THEN scores[accountIndex].lastSuccess ELSE 0,
     consecutiveFailures |-> 1]

(* The HealthScoreState each record* call stores. *)
successState(accountIndex) ==
    [score |-> Min(healthConfig.maxScore, getScore(accountIndex) + healthConfig.successReward),
     lastUpdated |-> now, lastSuccess |-> now, consecutiveFailures |-> 0]

rateLimitState(accountIndex) ==
    [score |-> Max(0, getScore(accountIndex) + healthConfig.rateLimitPenalty),
     lastUpdated |-> now, lastSuccess |-> lastSuccessOf(accountIndex),
     consecutiveFailures |-> getConsecutiveFailures(accountIndex) + 1]

failureState(accountIndex) ==
    [score |-> Max(0, getScore(accountIndex) + healthConfig.failurePenalty),
     lastUpdated |-> now, lastSuccess |-> lastSuccessOf(accountIndex),
     consecutiveFailures |-> getConsecutiveFailures(accountIndex) + 1]

(* What lastOp holds after a call on the health tracker. *)
HealthOp(name, accountIndex) ==
    [op |-> name, id |-> accountIndex, arg |-> 0, ret |-> TRUE,
     before |-> getScore(accountIndex), pre |-> scores]

NoOp == [op |-> "none", id |-> NullIndex, arg |-> 0, ret |-> TRUE,
         before |-> 0, pre |-> EmptyMap]

(* The record of the calls made so far, per account: the last set on the  *)
(* quota cache, the rate limits and failures reported since the last       *)
(* success or reset, the time of a failure that found the account         *)
(* without a state and was followed by no other report, the time of the    *)
(* last rate limit or failure since the last reset, and whether a record*  *)
(* call was made since the last reset.                                     *)
NoHistory ==
    [lastSet |-> [a \in AccountIds |-> << >>],
     failures |-> [a \in AccountIds |-> 0],
     freshFailureAt |-> [a \in AccountIds |-> << >>],
     lastFailureAt |-> [a \in AccountIds |-> << >>],
     recorded |-> [a \in AccountIds |-> FALSE]]

(* config/schema.ts: failure_ttl_seconds, the default. *)
FAILURE_TTL_SECONDS == 3600

HealthFrame ==
    UNCHANGED <<now, healthConfig, tokenConfig, buckets, accounts,
                currentAccountIndex, guardConfig, cache, pc, task, admitted,
                episodeBalance>>

recordSuccess(accountIndex) ==
    /\ steps < MaxSteps
    /\ scores' = MapSet(scores, accountIndex, successState(accountIndex))
    /\ lastOp' = HealthOp("recordSuccess", accountIndex)
    /\ history' = [history EXCEPT !.failures[accountIndex] = 0,
                                  !.freshFailureAt[accountIndex] = << >>,
                                  !.recorded[accountIndex] = TRUE]
    /\ steps' = steps + 1
    /\ HealthFrame

recordRateLimit(accountIndex) ==
    /\ steps < MaxSteps
    /\ scores' = MapSet(scores, accountIndex, rateLimitState(accountIndex))
    /\ lastOp' = HealthOp("recordRateLimit", accountIndex)
    /\ history' = [history EXCEPT !.failures[accountIndex] = @ + 1,
                                  !.freshFailureAt[accountIndex] = << >>,
                                  !.lastFailureAt[accountIndex] = <<now>>,
                                  !.recorded[accountIndex] = TRUE]
    /\ steps' = steps + 1
    /\ HealthFrame

recordFailure(accountIndex) ==
    /\ steps < MaxSteps
    /\ scores' = MapSet(scores, accountIndex, failureState(accountIndex))
    /\ lastOp' = HealthOp("recordFailure", accountIndex)
    /\ history' = [history EXCEPT !.failures[accountIndex] = @ + 1,
                                  !.freshFailureAt[accountIndex] =
                                      IF MapHas(scores, accountIndex) THEN << >>
                                      ELSE <<now>>,
                                  !.lastFailureAt[accountIndex] = <<now>>,
                                  !.recorded[accountIndex] = TRUE]
    /\ steps' = steps + 1
    /\ HealthFrame

(* A reset that restores the score and keeps the failure count. *)
reset_KeepsFailures(accountIndex) ==
    /\ steps < MaxSteps
    /\ scores' = IF MapHas(scores, accountIndex)
                 THEN MapSet(scores, accountIndex,
                             [scores[accountIndex] EXCEPT !.score = healthConfig.initial,
                                                          !.lastUpdated = now])
                 ELSE scores
    /\ lastOp' = HealthOp("reset", accountIndex)
    /\ history' = [history EXCEPT !.failures[accountIndex] = 0,
                                  !.freshFailureAt[accountIndex] = << >>,
                                  !.lastFailureAt[accountIndex] = << >>,
                                  !.recorded[accountIndex] = FALSE]
    /\ steps' = steps + 1
    /\ HealthFrame

reset(accountIndex) ==
    /\ steps < MaxSteps
    /\ scores' = MapDelete(scores, accountIndex)
    /\ lastOp' = HealthOp("reset", accountIndex)
    /\ history' = [history EXCEPT !.failures[accountIndex] = 0,
                                  !.freshFailureAt[accountIndex] = << >>,
                                  !.lastFailureAt[accountIndex] = << >>,
                                  !.recorded[accountIndex] = FALSE]
    /\ steps' = steps + 1
    /\ HealthFrame

(* A caller reads the tracker: getSnapshot() or getScore(accountIndex).   *)
(* Neither assigns a field.                                                *)
GetSnapshot ==
    /\ steps < MaxSteps
    /\ lastOp' = HealthOp("getSnapshot", NullIndex)
    /\ steps' = steps + 1
    /\ UNCHANGED <<scores, history>>
    /\ HealthFrame

GetScore(accountIndex) ==
    /\ steps < MaxSteps
    /\ lastOp' = HealthOp("getScore", accountIndex)
    /\ steps' = steps + 1
    /\ UNCHANGED <<scores, history>>
    /\ HealthFrame

(* The locals of a cooperative task that has not started a request;      *)
(* evicted records that the call's cache lookup deleted an expired entry.  *)
TaskIdle == [account |-> NullIndex, cost |-> 0, quota |-> << >>, result |-> << >>,
             fetches |-> 0, fetched |-> "none", evicted |-> FALSE]

(***************************************************************************)
(* TOKEN BUCKET SYSTEM                                                     *)
(***************************************************************************)
DEFAULT_TOKEN_BUCKET_CONFIG ==
    [maxTokens |-> 50, regenerationRatePerMinute |-> 6, initialTokens |-> 50]

(* Configurations the constructor is given: the default and partial       *)
(* overrides of it within the ranges config/schema.ts accepts (max_tokens  *)
(* 1..1000, initial_tokens 1..1000).                                       *)
TokenConfigs ==
    { DEFAULT_TOKEN_BUCKET_CONFIG,
      [DEFAULT_TOKEN_BUCKET_CONFIG EXCEPT !.initialTokens = 5],
      [DEFAULT_TOKEN_BUCKET_CONFIG EXCEPT !.initialTokens = 30],
      [DEFAULT_TOKEN_BUCKET_CONFIG EXCEPT !.maxTokens = 20] }

(* Costs and refunds the callers ask for (the default is 1). *)
Costs == {1, 10, 30}

(* Elapsed times between two calls on the token tracker: 10 s regenerates *)
(* one token at the default rate, 5 min regenerates thirty.                *)
TokenClockSteps == { 10 * 1000, 5 * 60 * 1000 }

(* A getTokens that regenerates without the cap. *)
getTokensAt_Uncapped(accountIndex, t) ==
    IF ~MapHas(buckets, accountIndex)
    THEN tokenConfig.initialTokens
    ELSE buckets[accountIndex].tokens
           + ((t - buckets[accountIndex].lastUpdated)
                 * tokenConfig.regenerationRatePerMinute) \div (1000 * 60)

(* TokenBucketTracker.getTokens, Date.now() being t. *)
getTokensAt(accountIndex, t) ==
    IF ~MapHas(buckets, accountIndex)
    THEN tokenConfig.initialTokens
    ELSE LET state == buckets[accountIndex]
             recoveredTokens ==
                 ((t - state.lastUpdated) * tokenConfig.regenerationRatePerMinute)
                     \div (1000 * 60)
         IN  Min(tokenConfig.maxTokens, state.tokens + recoveredTokens)

getTokens(accountIndex) == getTokensAt(accountIndex, now)

hasTokens(accountIndex, cost) == getTokens(accountIndex) >= cost

getMaxTokens == tokenConfig.maxTokens

(* TokenBucketTracker.consume as a function of the state it finds: the    *)
(* value it returns and the buckets map it leaves.                         *)
consumeOutcome_Unchecked(accountIndex, cost) ==
    [ok |-> TRUE,
     buckets |-> MapSet(buckets, accountIndex,
                        [tokens |-> getTokens(accountIndex) - cost, lastUpdated |-> now])]

(* A consume that keeps one bucket for all the accounts. *)
consumeOutcome_SharedBucket(accountIndex, cost) ==
    LET current == getTokens(accountIndex)
    IN  IF current < cost
        THEN [ok |-> FALSE, buckets |-> buckets]
        ELSE [ok |-> TRUE,
              buckets |-> [a \in AccountIds |->
                              [tokens |-> current - cost, lastUpdated |-> now]]]

consumeOutcome(accountIndex, cost) ==
    LET current == getTokens(accountIndex)
    IN  IF current < cost
        THEN [ok |-> FALSE, buckets |-> buckets]
        ELSE [ok |-> TRUE,
              buckets |-> MapSet(buckets, accountIndex,
                                 [tokens |-> current - cost, lastUpdated |-> now])]

(* A refund of the default amount, 1, whatever amount is asked. *)
refundOutcome_DefaultAmount(accountIndex, amount) ==
    MapSet(buckets, accountIndex,
           [tokens |-> Min(tokenConfig.maxTokens, getTokens(accountIndex) + 1),
            lastUpdated |-> now])

(* A refund that adds the amount without the cap. *)
refundOutcome_Uncapped(accountIndex, amount) ==
    MapSet(buckets, accountIndex,
           [tokens |-> getTokens(accountIndex) + amount, lastUpdated |-> now])

(* TokenBucketTracker.refund: the buckets map it leaves. *)
refundOutcome(accountIndex, amount) ==
    MapSet(buckets, accountIndex,
           [tokens |-> Min(tokenConfig.maxTokens, getTokens(accountIndex) + amount),
            lastUpdated |-> now])

TokenOp(name, accountIndex, amount, returned) ==
    [op |-> name, id |-> accountIndex, arg |-> amount, ret |-> returned,
     before |-> getTokens(accountIndex), pre |-> buckets]

TokenFrame ==
    UNCHANGED <<now, healthConfig, scores, tokenConfig, accounts,
                currentAccountIndex, guardConfig, cache, pc, task, history>>

consume(accountIndex, cost) ==
    /\ steps < MaxSteps
    /\ buckets' = consumeOutcome(accountIndex, cost).buckets
    /\ lastOp' = TokenOp("consume", accountIndex, cost, consumeOutcome(accountIndex, cost).ok)
    /\ admitted' = [admitted EXCEPT ![accountIndex] =
                        @ + (IF consumeOutcome(accountIndex, cost).ok THEN 1 ELSE 0)]
    /\ steps' = steps + 1
    /\ UNCHANGED episodeBalance
    /\ TokenFrame

refund(accountIndex, amount) ==
    /\ steps < MaxSteps
    /\ buckets' = refundOutcome(accountIndex, amount)
    /\ lastOp' = TokenOp("refund", accountIndex, amount, TRUE)
    /\ steps' = steps + 1
    /\ UNCHANGED <<admitted, episodeBalance>>
    /\ TokenFrame

(***************************************************************************)
(* LRU SELECTION                                                           *)
(***************************************************************************)
(* A filter that lets cooling-down accounts through. *)
isLruCandidate_IgnoresCooldown(acc, minHealthScore) ==
    /\ ~acc.isRateLimited
    /\ acc.healthScore >= minHealthScore

(* The filter of sortByLruWithHealth. *)
isLruCandidate(acc, minHealthScore) ==
    /\ ~acc.isRateLimited
    /\ ~acc.isCoolingDown
    /\ acc.healthScore >= minHealthScore

(* A comparator without the health tiebreaker. *)
compareLru_NoTiebreak(a, b) == a.lastUsed - b.lastUsed

(* The comparator of sortByLruWithHealth. *)
compareLru(a, b) ==
    LET lruDiff == a.lastUsed - b.lastUsed
    IN  IF lruDiff # 0 THEN lruDiff ELSE b.healthScore - a.healthScore

(* Array.prototype.sort with compareLru; stable, as sortScored below. *)
insertLru(sorted, x) ==
    LET later == {i \in 1 .. Len(sorted) : compareLru(x, sorted[i]) < 0}
        p == IF later = {} THEN Len(sorted) + 1
             ELSE CHOOSE i \in later : \A j \in later : i <= j
    IN  SubSeq(sorted, 1, p - 1) \o <<x>> \o SubSeq(sorted, p, Len(sorted))

sortLru(s) ==
    LET F[i \in 0 .. Len(s)] ==
            IF i = 0 THEN << >> ELSE insertLru(F[i - 1], s[i])
    IN  F[Len(s)]

(* The value sortByLruWithHealth returns. *)
sortByLruWithHealth(accs, minHealthScore) ==
    sortLru(SelectSeq(accs, LAMBDA acc : isLruCandidate(acc, minHealthScore)))

(* A sort applied to the caller's array itself. *)
accountsAfterSort_InPlace(accs, minHealthScore) == sortLru(accs)

(* The caller's array after sortByLruWithHealth: filter returns a new     *)
(* array and sort orders that one, so the argument keeps its elements and  *)
(* their order.                                                            *)
accountsAfterSort(accs, minHealthScore) == accs

(***************************************************************************)
(* HYBRID SELECTION                                                        *)
(***************************************************************************)
STICKINESS_BONUS == 150
SWITCH_THRESHOLD == 100

(* scored.sort((a, b) => b.score - a.score).  Array.prototype.sort is     *)
(* stable: the elements are inserted left to right, each before the first  *)
(* element it strictly precedes (compare(x, e) < 0).                       *)
(* A comparison by base score, the stickiness bonus left out. *)
compareScored_ByBaseScore(a, b) == b.baseScore - a.baseScore

compareScored(a, b) == b.score - a.score

insertScored(sorted, x) ==
    LET later == {i \in 1 .. Len(sorted) : compareScored(x, sorted[i]) < 0}
        p == IF later = {} THEN Len(sorted) + 1
             ELSE CHOOSE i \in later : \A j \in later : i <= j
    IN  SubSeq(sorted, 1, p - 1) \o <<x>> \o SubSeq(sorted, p, Len(sorted))

sortScored(s) ==
    LET F[i \in 0 .. Len(s)] ==
            IF i = 0 THEN << >> ELSE insertScored(F[i - 1], s[i])
    IN  F[Len(s)]

(* Scores are reals in the code.  The model holds each score multiplied   *)
(* by ScoreUnit(maxTokens), which makes every component an integer:        *)
(* tokens / maxTokens * 100 * 5 and seconds * 0.1 with seconds = ms / 1000.*)
ScoreUnit(maxTokens) == 10000 * maxTokens

(* calculateHybridScore, in ScoreUnit(maxTokens). *)
calculateHybridScore(account, maxTokens) ==
    LET healthComponent == account.healthScore * 2 * ScoreUnit(maxTokens)
        tokenComponent == account.tokens * 100 * 5 * 10000
        msSinceUsed == now - account.lastUsed
        freshnessComponent == Min(msSinceUsed, 3600 * 1000) * maxTokens
    IN  Max(0, healthComponent + tokenComponent + freshnessComponent)

(* The filter of selectHybridAccount (hasTokens with its default cost 1). *)
isHybridCandidate(acc, minHealthScore) ==
    /\ ~acc.isRateLimited
    /\ ~acc.isCoolingDown
    /\ acc.healthScore >= minHealthScore
    /\ hasTokens(acc.index, 1)

(* candidates: the filtered accounts, each with its token balance. *)
hybridCandidates(accs, minHealthScore) ==
    LET kept == SelectSeq(accs, LAMBDA acc : isHybridCandidate(acc, minHealthScore))
    IN  [i \in 1 .. Len(kept) |->
            [index |-> kept[i].index, lastUsed |-> kept[i].lastUsed,
             healthScore |-> kept[i].healthScore, tokens |-> getTokens(kept[i].index)]]

(* scored: the candidates with base and bonus-adjusted score, best first. *)
hybridScored(accs, current, minHealthScore) ==
    LET candidates == hybridCandidates(accs, minHealthScore)
        maxTokens == getMaxTokens
        entry(acc) ==
            LET baseScore == calculateHybridScore(acc, maxTokens)
                stickinessBonus ==
                    IF acc.index = current
                    THEN STICKINESS_BONUS * ScoreUnit(maxTokens) ELSE 0
            IN  [index |-> acc.index, baseScore |-> baseScore,
                 score |-> baseScore + stickinessBonus,
                 isCurrent |-> acc.index = current]
    IN  sortScored([i \in 1 .. Len(candidates) |-> entry(candidates[i])])

(* A selection that ranks by base score alone and ignores the current account. *)
selectHybridAccount_NoHysteresis(accs, current, minHealthScore) ==
    LET scored == hybridScored(accs, NullIndex, minHealthScore)
    IN  IF Len(scored) = 0 THEN NullIndex ELSE scored[1].index

(* A selection that skips the token filter. *)
selectHybridAccount_NoTokenFilter(accs, current, minHealthScore) ==
    LET kept == SelectSeq(accs, LAMBDA acc : /\ ~acc.isRateLimited
                                            /\ ~acc.isCoolingDown
                                            /\ acc.healthScore >= minHealthScore)
    IN  IF Len(kept) = 0 THEN NullIndex ELSE kept[1].index

(* A selection that always moves off the current account when it can. *)
selectHybridAccount_Rotating(accs, current, minHealthScore) ==
    LET scored == hybridScored(accs, NullIndex, minHealthScore)
        others == SelectSeq(scored, LAMBDA e : e.index # current)
    IN  IF Len(scored) = 0 THEN NullIndex
        ELSE IF Len(others) = 0 THEN scored[1].index
        ELSE others[1].index

(* selectHybridAccount; NullIndex is its null. *)
selectHybridAccount(accs, current, minHealthScore) ==
    LET scored == hybridScored(accs, current, minHealthScore)
        best == scored[1]
        currentCandidate == SelectSeq(scored, LAMBDA e : e.isCurrent)
    IN  IF Len(scored) = 0 THEN NullIndex
        ELSE IF /\ Len(currentCandidate) > 0
                /\ ~best.isCurrent
                /\ best.baseScore - currentCandidate[1].baseScore
                       < SWITCH_THRESHOLD * ScoreUnit(getMaxTokens)
        THEN currentCandidate[1].index
        ELSE best.index

(***************************************************************************)
(* PRIORITY QUEUE SELECTION                                                *)
(* selectPriorityQueueAccount(accounts, tokenTracker, minHealthScore):     *)
(* the candidates are the accounts that are not rate-limited, not cooling  *)
(* down, of healthScore >= minHealthScore and with tokens; one of them is  *)
(* drawn at random with a weight proportional to healthScore times token   *)
(* balance; null when there is no candidate.                               *)
(***************************************************************************)
(* A filter that lets accounts that are cooling down through. *)
isPriorityCandidate_IgnoresCooldown(acc, minHealthScore) ==
    /\ ~acc.isRateLimited
    /\ acc.healthScore >= minHealthScore
    /\ hasTokens(acc.index, 1)

isPriorityCandidate(acc, minHealthScore) ==
    /\ ~acc.isRateLimited
    /\ ~acc.isCoolingDown
    /\ acc.healthScore >= minHealthScore
    /\ hasTokens(acc.index, 1)

priorityWeight(acc) == acc.healthScore * getTokens(acc.index)

(* The indices a call can return, one per outcome of the random draw:     *)
(* every candidate of positive weight, any candidate when no weight is     *)
(* positive, NullIndex when there is no candidate.                         *)
selectPriorityQueueAccount(accs, minHealthScore) ==
    LET candidates == SelectSeq(accs, LAMBDA acc : isPriorityCandidate(acc, minHealthScore))
        weighted == {i \in 1 .. Len(candidates) : priorityWeight(candidates[i]) > 0}
    IN  IF Len(candidates) = 0 THEN {NullIndex}
        ELSE IF weighted = {} THEN {candidates[i].index : i \in 1 .. Len(candidates)}
        ELSE {candidates[i].index : i \in weighted}

(* Time passes between two calls: Date.now() grows by d milliseconds.     *)
(* Every bucket regenerates, which starts a new admission episode.         *)
AdvanceClock(d) ==
    /\ steps < MaxSteps
    /\ now' = now + d
    /\ lastOp' = NoOp
    /\ admitted' = [a \in AccountIds |-> 0]
    /\ episodeBalance' = [a \in AccountIds |-> getTokensAt(a, now + d)]
    /\ steps' = steps + 1
    /\ UNCHANGED <<healthConfig, scores, tokenConfig, buckets, accounts,
                   currentAccountIndex, guardConfig, cache, pc, task, history>>

(***************************************************************************)
(* SINGLETON TRACKERS                                                      *)
(* The module keeps one shared tracker of each kind; getHealthTracker and  *)
(* getTokenTracker return it.  initHealthTracker and initTokenTracker put  *)
(* a new tracker in its place: the configuration is the default overridden *)
(* by the one given, and the new tracker has no state for any account.     *)
(* scores, healthConfig, buckets and tokenConfig are those of the shared   *)
(* tracker in place; history, admitted and episodeBalance record the calls *)
(* made on the tracker in place, so they start again with it.              *)
(***************************************************************************)
initHealthTracker(config) ==
    /\ steps < MaxSteps
    /\ healthConfig' = config
    /\ scores' = EmptyMap
    /\ history' = [NoHistory EXCEPT !.lastSet = history.lastSet]
    /\ lastOp' = [op |-> "initHealthTracker", id |-> NullIndex, arg |-> 0,
                  ret |-> TRUE, before |-> 0, pre |-> scores]
    /\ steps' = steps + 1
    /\ UNCHANGED <<now, tokenConfig, buckets, accounts, currentAccountIndex,
                   guardConfig, cache, pc, task, admitted, episodeBalance>>

initTokenTracker(config) ==
    /\ steps < MaxSteps
    /\ tokenConfig' = config
    /\ buckets' = EmptyMap
    /\ admitted' = [a \in AccountIds |-> 0]
    /\ episodeBalance' = [a \in AccountIds |-> config.initialTokens]
    /\ lastOp' = [op |-> "initTokenTracker", id |-> NullIndex, arg |-> 0,
                  ret |-> TRUE, before |-> 0, pre |-> buckets]
    /\ steps' = steps + 1
    /\ UNCHANGED <<now, healthConfig, scores, accounts, currentAccountIndex,
                   guardConfig, cache, pc, task, history>>

(***************************************************************************)
(* Specification of the health tracker: any sequence of record calls,      *)
(* resets and elapsed time, under each configuration.                      *)
(***************************************************************************)
DEFAULT_GUARD_CONFIG == [switchRemainingPercent |-> 5, quotaCacheTtlSeconds |-> 60]

IdleRest ==
    /\ accounts = << >>
    /\ currentAccountIndex = NullIndex
    /\ guardConfig = DEFAULT_GUARD_CONFIG
    /\ cache = EmptyMap
    /\ pc = [t \in Tasks |-> "idle"]
    /\ task = [t \in Tasks |-> TaskIdle]
    /\ admitted = [a \in AccountIds |-> 0]
    /\ history = NoHistory
    /\ steps = 0
    /\ lastOp = NoOp

InitHealth ==
    /\ now = 0
    /\ healthConfig \in HealthConfigs
    /\ scores = EmptyMap
    /\ tokenConfig = DEFAULT_TOKEN_BUCKET_CONFIG
    /\ buckets = EmptyMap
    /\ episodeBalance = [a \in AccountIds |-> DEFAULT_TOKEN_BUCKET_CONFIG.initialTokens]
    /\ IdleRest

NextHealth ==
    \/ \E a \in AccountIds : recordSuccess(a)
    \/ \E a \in AccountIds : recordRateLimit(a)
    \/ \E a \in AccountIds : recordFailure(a)
    \/ \E a \in AccountIds : reset(a)
    \/ \E d \in HealthClockSteps : AdvanceClock(d)

SpecHealth == InitHealth /\ [][NextHealth]_vars

(***************************************************************************)
(* Specification of the health tracker with its readers: the calls of      *)
(* SpecHealth and, between them, getSnapshot and getScore.                 *)
(***************************************************************************)
NextSnapshot ==
    \/ NextHealth
    \/ GetSnapshot
    \/ \E a \in AccountIds : GetScore(a)

SpecSnapshot == InitHealth /\ [][NextSnapshot]_vars

(***************************************************************************)
(* Specification of passive recovery: rate limits and failures are         *)
(* reported, then the reports stop and only the clock moves.  Time always  *)
(* passes, which is the fairness of PassTime; the clock is followed until  *)
(* RecoveryHorizon, a day and a half past the latest time a report can     *)
(* carry, enough for a score of 0 to recover past minUsable at the rates   *)
(* of HealthConfigs.                                                       *)
(***************************************************************************)
QuietTick == 12 * 60 * 60 * 1000

RecoveryHorizon == (MaxSteps + 3) * QuietTick

(* The reports have stopped; twelve more hours pass. *)
PassTime ==
    /\ steps = MaxSteps
    /\ now < RecoveryHorizon
    /\ now' = now + QuietTick
    /\ lastOp' = NoOp
    /\ admitted' = [a \in AccountIds |-> 0]
    /\ episodeBalance' = [a \in AccountIds |-> getTokensAt(a, now + QuietTick)]
    /\ UNCHANGED <<healthConfig, scores, tokenConfig, buckets, accounts,
                   currentAccountIndex, guardConfig, cache, pc, task, history,
                   steps>>

NextRecovery ==
    \/ \E a \in AccountIds : recordRateLimit(a)
    \/ \E a \in AccountIds : recordFailure(a)
    \/ AdvanceClock(QuietTick)
    \/ PassTime

SpecRecovery == InitHealth /\ [][NextRecovery]_vars /\ WF_vars(PassTime)

(***************************************************************************)
(* Specification of outcome reporting: cooperative tasks that each send a  *)
(* request for an account, are suspended while it is in flight, and report *)
(* its outcome to the health tracker when it returns.  A record* call has  *)
(* no await in it, so it is one step; the tasks' steps interleave freely.  *)
(***************************************************************************)
Outcomes == {"success", "rateLimit", "failure"}

(* The tracker method a task calls for an outcome. *)
recordCall(outcome) ==
    CASE outcome = "success" -> "recordSuccess"
      [] outcome = "rateLimit" -> "recordRateLimit"
      [] OTHER -> "recordFailure"

reportedState(outcome, accountIndex) ==
    CASE outcome = "success" -> successState(accountIndex)
      [] outcome = "rateLimit" -> rateLimitState(accountIndex)
      [] OTHER -> failureState(accountIndex)

(* A task sends a request for an account and is suspended on it. *)
TaskSend(t, accountIndex) ==
    /\ steps < MaxSteps
    /\ pc[t] \in {"idle", "reported"}
    /\ pc' = [pc EXCEPT ![t] = "awaiting"]
    /\ task' = [task EXCEPT ![t] = [TaskIdle EXCEPT !.account = accountIndex]]
    /\ lastOp' = NoOp
    /\ steps' = steps + 1
    /\ UNCHANGED <<now, healthConfig, scores, tokenConfig, buckets, accounts,
                   currentAccountIndex, guardConfig, cache, admitted,
                   episodeBalance, history>>

(* The request returned: the task reports its outcome. *)
TaskReport(t, outcome) ==
    /\ steps < MaxSteps
    /\ pc[t] = "awaiting"
    /\ scores' = MapSet(scores, task[t].account,
                        reportedState(outcome, task[t].account))
    /\ lastOp' = HealthOp(recordCall(outcome), task[t].account)
    /\ history' = [history EXCEPT
                      !.failures[task[t].account] =
                          IF outcome = "success" THEN 0 ELSE @ + 1,
                      !.freshFailureAt[task[t].account] =
                          IF outcome = "failure" /\ ~MapHas(scores, task[t].account)
                          THEN <<now>> ELSE << >>,
                      !.lastFailureAt[task[t].account] =
                          IF outcome = "success" THEN @ ELSE <<now>>,
                      !.recorded[task[t].account] = TRUE]
    /\ pc' = [pc EXCEPT ![t] = "reported"]
    /\ steps' = steps + 1
    /\ UNCHANGED <<now, healthConfig, tokenConfig, buckets, accounts,
                   currentAccountIndex, guardConfig, cache, task, admitted,
                   episodeBalance>>

NextReport ==
    \/ \E t \in Tasks, a \in AccountIds : TaskSend(t, a)
    \/ \E t \in Tasks, o \in Outcomes : TaskReport(t, o)
    \/ \E a \in AccountIds : reset(a)
    \/ \E config \in HealthConfigs : initHealthTracker(config)
    \/ \E d \in HealthClockSteps : AdvanceClock(d)

SpecReport == InitHealth /\ [][NextReport]_vars

(***************************************************************************)
(* Specification of the token bucket: any sequence of consume and refund   *)
(* calls and elapsed time, under each configuration.                       *)
(***************************************************************************)
InitTokens ==
    /\ now = 0
    /\ healthConfig = DEFAULT_HEALTH_SCORE_CONFIG
    /\ scores = EmptyMap
    /\ tokenConfig \in TokenConfigs
    /\ buckets = EmptyMap
    /\ episodeBalance = [a \in AccountIds |-> tokenConfig.initialTokens]
    /\ IdleRest

NextTokens ==
    \/ \E a \in AccountIds, c \in Costs : consume(a, c)
    \/ \E a \in AccountIds, c \in Costs : refund(a, c)
    \/ \E d \in TokenClockSteps : AdvanceClock(d)

SpecTokens == InitTokens /\ [][NextTokens]_vars

(***************************************************************************)
(* Specification of the two trackers side by side, as the request loop     *)
(* holds them: token and health calls on any account in any order.         *)
(***************************************************************************)
(* A cost that exhausts the default bucket at the second consume, and a    *)
(* refund that does not fill it again.                                     *)
TrackerCost == 30
TrackerRefund == 10

TrackerClockStep == 60 * 1000

NextTrackers ==
    \/ \E a \in AccountIds : consume(a, TrackerCost)
    \/ \E a \in AccountIds : refund(a, TrackerRefund)
    \/ \E a \in AccountIds : recordSuccess(a)
    \/ \E a \in AccountIds : recordRateLimit(a)
    \/ \E a \in AccountIds : recordFailure(a)
    \/ \E a \in AccountIds : reset(a)
    \/ AdvanceClock(TrackerClockStep)

(* Both trackers as the singletons are built without a configuration. *)
InitTrackers == InitHealth /\ healthConfig = DEFAULT_HEALTH_SCORE_CONFIG

SpecTrackers == InitTrackers /\ [][NextTrackers]_vars

(***************************************************************************)
(* Specification of hybrid selection, a pure function of the snapshot, the *)
(* token balances and the clock: the inputs are drawn from bounded sets    *)
(* and the only action applies it.                                         *)
(***************************************************************************)
DefaultMinHealthScore == 50

(* Date.now() of the selection specification: two hours after the epoch   *)
(* of the snapshot's lastUsed stamps.                                      *)
SelectNow == 2 * 3600 * 1000

(* Per account: health score, flags, lastUsed and the token balance left. *)
(* The selectable profiles vary in all of them; each filter has profiles   *)
(* that fail it alone, with an otherwise attractive score.                 *)
LastUsedValues == { 500, 1000, SelectNow - 30 * 60 * 1000 }

Profile(health, limited, cooling, used, balance) ==
    [healthScore |-> health, isRateLimited |-> limited, isCoolingDown |-> cooling,
     lastUsed |-> used, balance |-> balance]

Profiles ==
    { Profile(h, FALSE, FALSE, u, b) : h \in {70, 100}, u \in LastUsedValues, b \in {38, 50} }
    \cup { Profile(h, FALSE, FALSE, 500, 0) : h \in {70, 100} }
    \cup { Profile(100, TRUE, FALSE, 500, 50),
           Profile(100, FALSE, TRUE, 500, 50),
           Profile(40, FALSE, FALSE, 500, 50) }

(* The snapshot of the accounts, in index order. *)
Snapshot(prof) ==
    [i \in 1 .. NumAccounts |->
        [index |-> i - 1, lastUsed |-> prof[i - 1].lastUsed,
         healthScore |-> prof[i - 1].healthScore,
         isRateLimited |-> prof[i - 1].isRateLimited,
         isCoolingDown |-> prof[i - 1].isCoolingDown]]

(* The buckets map after each account consumed down to bal[a] at time t;  *)
(* an account that consumed nothing has no bucket yet.                     *)
BucketsWith(bal, initialTokens, t) ==
    [a \in {x \in AccountIds : bal[x] # initialTokens} |->
        [tokens |-> bal[a], lastUpdated |-> t]]

InitSelect ==
    /\ now = SelectNow
    /\ healthConfig = DEFAULT_HEALTH_SCORE_CONFIG
    /\ scores = EmptyMap
    /\ tokenConfig = DEFAULT_TOKEN_BUCKET_CONFIG
    /\ \E prof \in [AccountIds -> Profiles] :
          /\ accounts = Snapshot(prof)
          /\ buckets = BucketsWith([a \in AccountIds |-> prof[a].balance],
                                   DEFAULT_TOKEN_BUCKET_CONFIG.initialTokens, SelectNow)
          /\ episodeBalance = [a \in AccountIds |-> prof[a].balance]
    /\ currentAccountIndex = NullIndex
    /\ guardConfig = DEFAULT_GUARD_CONFIG
    /\ cache = EmptyMap
    /\ pc = [t \in Tasks |-> "idle"]
    /\ task = [t \in Tasks |-> TaskIdle]
    /\ admitted = [a \in AccountIds |-> 0]
    /\ history = NoHistory
    /\ steps = 0
    /\ lastOp = NoOp

(* One request: the caller passes a current account (or none) and adopts  *)
(* the result.  The call changes nothing it reads, so it needs no bound.   *)
SelectHybrid(current) ==
    /\ LET r == selectHybridAccount(accounts, current, DefaultMinHealthScore)
       IN  /\ lastOp' = [op |-> "selectHybridAccount", id |-> r,
                         arg |-> current, ret |-> TRUE,
                         before |-> 0, pre |-> buckets]
           /\ currentAccountIndex' = r
    /\ UNCHANGED <<now, healthConfig, scores, tokenConfig, buckets, accounts,
                   guardConfig, cache, pc, task, admitted, episodeBalance, steps,
                   history>>

(* The minHealthScore arguments of sortByLruWithHealth: the default and   *)
(* one that excludes an account of health 70.                              *)
MinHealthScores == { DefaultMinHealthScore, 80 }

(* One call of sortByLruWithHealth on the snapshot. *)
SortByLru(minHealthScore) ==
    /\ lastOp' = [op |-> "sortByLruWithHealth", id |-> NullIndex,
                  arg |-> minHealthScore,
                  ret |-> sortByLruWithHealth(accounts, minHealthScore),
                  before |-> 0, pre |-> accounts]
    /\ accounts' = accountsAfterSort(accounts, minHealthScore)
    /\ UNCHANGED <<now, healthConfig, scores, tokenConfig, buckets,
                   currentAccountIndex, guardConfig, cache, pc, task, admitted,
                   episodeBalance, steps, history>>

(* One call of selectPriorityQueueAccount on the snapshot; r is the index *)
(* the random draw lands on.                                               *)
SelectPriorityQueue(minHealthScore) ==
    /\ \E r \in selectPriorityQueueAccount(accounts, minHealthScore) :
          lastOp' = [op |-> "selectPriorityQueueAccount", id |-> r,
                     arg |-> minHealthScore, ret |-> TRUE,
                     before |-> 0, pre |-> buckets]
    /\ UNCHANGED <<now, healthConfig, scores, tokenConfig, buckets, accounts,
                   currentAccountIndex, guardConfig, cache, pc, task, admitted,
                   episodeBalance, steps, history>>

NextSelect ==
    \/ \E c \in AccountIds \cup {NullIndex} : SelectHybrid(c)
    \/ \E m \in MinHealthScores : SortByLru(m)
    \/ \E m \in MinHealthScores : SelectPriorityQueue(m)

SpecSelect == InitSelect /\ [][NextSelect]_vars

(***************************************************************************)
(* Specification of hybrid selection alone: one call of selectHybridAccount*)
(* on each snapshot, with each account or none as the current one.         *)
(***************************************************************************)
NextHybrid == \E c \in AccountIds \cup {NullIndex} : SelectHybrid(c)

SpecHybrid == InitSelect /\ [][NextHybrid]_vars

(***************************************************************************)
(* Specification of dispatch: cooperative tasks that each select an        *)
(* account and then consume from it; the two steps of a task are separate  *)
(* turns of the event loop, so other tasks run between them.               *)
(***************************************************************************)
HealthySnapshot ==
    [i \in 1 .. NumAccounts |->
        [index |-> i - 1, lastUsed |-> 0, healthScore |-> 70,
         isRateLimited |-> FALSE, isCoolingDown |-> FALSE]]

InitDispatch ==
    /\ now = 0
    /\ healthConfig = DEFAULT_HEALTH_SCORE_CONFIG
    /\ scores = EmptyMap
    /\ tokenConfig \in TokenConfigs
    /\ buckets = EmptyMap
    /\ episodeBalance = [a \in AccountIds |-> tokenConfig.initialTokens]
    /\ accounts = HealthySnapshot
    /\ currentAccountIndex = NullIndex
    /\ guardConfig = DEFAULT_GUARD_CONFIG
    /\ cache = EmptyMap
    /\ pc = [t \in Tasks |-> "idle"]
    /\ \E c \in Costs : task = [t \in Tasks |-> [TaskIdle EXCEPT !.cost = c]]
    /\ admitted = [a \in AccountIds |-> 0]
    /\ history = NoHistory
    /\ steps = 0
    /\ lastOp = NoOp

(* A task asks the selection for an account. *)
TaskSelect(t) ==
    /\ steps < MaxSteps
    /\ pc[t] = "idle"
    /\ LET r == selectHybridAccount(accounts, currentAccountIndex, DefaultMinHealthScore)
       IN  /\ task' = [task EXCEPT ![t].account = r]
           /\ pc' = [pc EXCEPT ![t] = IF r = NullIndex THEN "noaccount" ELSE "selected"]
           /\ currentAccountIndex' = r
           /\ lastOp' = [op |-> "selectHybridAccount", id |-> r,
                         arg |-> currentAccountIndex, ret |-> TRUE,
                         before |-> 0, pre |-> buckets]
    /\ steps' = steps + 1
    /\ UNCHANGED <<now, healthConfig, scores, tokenConfig, buckets, accounts,
                   guardConfig, cache, admitted, episodeBalance, history>>

(* The task consumes from the account it was handed. *)
TaskConsume(t) ==
    /\ steps < MaxSteps
    /\ pc[t] = "selected"
    /\ LET out == consumeOutcome(task[t].account, task[t].cost)
       IN  /\ buckets' = out.buckets
           /\ pc' = [pc EXCEPT ![t] = IF out.ok THEN "admitted" ELSE "rejected"]
           /\ admitted' = [admitted EXCEPT ![task[t].account] = @ + (IF out.ok THEN 1 ELSE 0)]
           /\ lastOp' = TokenOp("consume", task[t].account, task[t].cost, out.ok)
    /\ steps' = steps + 1
    /\ UNCHANGED <<now, healthConfig, scores, tokenConfig, accounts,
                   currentAccountIndex, guardConfig, cache, task, episodeBalance,
                   history>>

NextDispatch ==
    \/ \E t \in Tasks : TaskSelect(t)
    \/ \E t \in Tasks : TaskConsume(t)
    \/ \E config \in TokenConfigs : initTokenTracker(config)
    \/ \E d \in TokenClockSteps : AdvanceClock(d)

SpecDispatch == InitDispatch /\ [][NextDispatch]_vars

(***************************************************************************)
(* QUOTA GUARD                                                             *)
(*                                                                         *)
(* A QuotaSummary is its groups map: quota group name -> remainingFraction *)
(* in thousandths (0.04 is 40), or Undefined for a group that reports no   *)
(* fraction.  A value that may be null (QuotaSummary | null, number |      *)
(* null, the optional reason) is a sequence of length 0 or 1.              *)
(***************************************************************************)
Undefined == -1
Groups == {"claude", "geminiPro"}
Fractions == {40, 50, 100}
Quotas == [Groups -> Fractions \cup {Undefined}]

(* The summaries fetchQuota resolves with in the preflight specification: *)
(* the minimum in either group, one group or none reporting a fraction,    *)
(* and percentages below, at and above both thresholds.                    *)
FetchedQuotas ==
    { q \in Quotas :
         \/ q["claude"] = 40 /\ q["geminiPro"] = 100
         \/ q["claude"] = 100 /\ q["geminiPro"] \in {40, 100}
         \/ q["claude"] = 50 /\ q["geminiPro"] = Undefined
         \/ q["claude"] = Undefined /\ q["geminiPro"] \in {50, Undefined} }

GuardConfigs ==
    { DEFAULT_GUARD_CONFIG,
      [DEFAULT_GUARD_CONFIG EXCEPT !.switchRemainingPercent = 10] }

(* Elapsed times between two steps of the preflight tasks: 60 s (or twice *)
(* 30 s) is the TTL to the millisecond, 60.001 s is just past it.          *)
CacheClockSteps == { 30 * 1000, 60 * 1000, 60 * 1000 + 1 }

(* Math.min(...fractions) *)
MinOf(S) == CHOOSE m \in S : \A x \in S : m <= x

(* The thousandths between 0 and 1000 whose nearest double, times 100 in  *)
(* double arithmetic, is the double just below the half: 0.145 * 100 is    *)
(* 14.499999999999998, while 0.045 * 100 is 4.5.                           *)
RoundsBelowHalf == {145, 285, 565, 575}

(* Math.round(minFraction * 100), the fraction in thousandths, 0..1000. *)
RoundPercent(perMille) ==
    IF perMille \in RoundsBelowHalf THEN perMille \div 10
    ELSE (perMille + 5) \div 10

(* A minimum that counts a group without a fraction as 0. *)
calculateMinRemainingPercent_MissingIsZero(quota) ==
    LET fractions == {IF quota[g] = Undefined THEN 0 ELSE quota[g] : g \in DOMAIN quota}
    IN  IF fractions = {} THEN << >> ELSE <<RoundPercent(MinOf(fractions))>>

calculateMinRemainingPercent(quota) ==
    LET fractions == {quota[g] : g \in {h \in DOMAIN quota : quota[h] # Undefined}}
    IN  IF fractions = {} THEN << >> ELSE <<RoundPercent(MinOf(fractions))>>

(* A cache whose entries expire when they are exactly as old as the TTL. *)
cacheGet_ExpiresAtBoundary(accountIndex) ==
    IF ~MapHas(cache, accountIndex)
    THEN [value |-> << >>, cache |-> cache]
    ELSE IF now - cache[accountIndex].fetchedAt >= guardConfig.quotaCacheTtlSeconds * 1000
    THEN [value |-> << >>, cache |-> MapDelete(cache, accountIndex)]
    ELSE [value |-> <<cache[accountIndex].quota>>, cache |-> cache]

(* QuotaGuardCache.get: the value returned and the map left behind. *)
cacheGet(accountIndex) ==
    IF ~MapHas(cache, accountIndex)
    THEN [value |-> << >>, cache |-> cache]
    ELSE IF now - cache[accountIndex].fetchedAt > guardConfig.quotaCacheTtlSeconds * 1000
    THEN [value |-> << >>, cache |-> MapDelete(cache, accountIndex)]
    ELSE [value |-> <<cache[accountIndex].quota>>, cache |-> cache]

(* A cache that keeps the entry it already has. *)
cacheSet_KeepFirst(accountIndex, quota) ==
    IF MapHas(cache, accountIndex) THEN cache
    ELSE MapSet(cache, accountIndex, [quota |-> quota, fetchedAt |-> now])

(* QuotaGuardCache.set: the map left behind. *)
cacheSet(accountIndex, quota) ==
    MapSet(cache, accountIndex, [quota |-> quota, fetchedAt |-> now])

(* An invalidate that drops every entry. *)
cacheInvalidate_DropsAll(accountIndex) == EmptyMap

(* QuotaGuardCache.invalidate: the map left behind. *)
cacheInvalidate(accountIndex) == MapDelete(cache, accountIndex)

(* QuotaGuardCache.clear: the map left behind. *)
cacheClear == EmptyMap

NoSwitch(percent) ==
    [kind |-> "return", shouldSwitch |-> FALSE, remainingPercent |-> percent,
     reason |-> << >>]

(* preflightQuotaCheck after the fetch: lines 169-187. *)
preflightVerdict_StrictlyBelow(quota) ==
    IF quota = << >> THEN NoSwitch(<< >>)
    ELSE LET remainingPercent == calculateMinRemainingPercent(quota[1])
         IN  IF remainingPercent = << >> THEN NoSwitch(<< >>)
             ELSE IF remainingPercent[1] < guardConfig.switchRemainingPercent
             THEN [kind |-> "return", shouldSwitch |-> TRUE,
                   remainingPercent |-> remainingPercent,
                   reason |-> <<[percent |-> remainingPercent[1],
                                 threshold |-> guardConfig.switchRemainingPercent]>>]
             ELSE NoSwitch(remainingPercent)

preflightVerdict(quota) ==
    IF quota = << >> THEN NoSwitch(<< >>)
    ELSE LET remainingPercent == calculateMinRemainingPercent(quota[1])
         IN  IF remainingPercent = << >> THEN NoSwitch(<< >>)
             ELSE IF remainingPercent[1] <= guardConfig.switchRemainingPercent
             THEN [kind |-> "return", shouldSwitch |-> TRUE,
                   remainingPercent |-> remainingPercent,
                   reason |-> <<[percent |-> remainingPercent[1],
                                 threshold |-> guardConfig.switchRemainingPercent]>>]
             ELSE NoSwitch(remainingPercent)

(* The catch block of preflightQuotaCheck: what the call ends with when   *)
(* fetchQuota rejects.                                                     *)
onFetchRejected_Rethrown ==
    [kind |-> "throw", shouldSwitch |-> FALSE, remainingPercent |-> << >>,
     reason |-> << >>]

onFetchRejected == NoSwitch(<< >>)

(* The last step of a preflight check: the task that took it in arg. *)
PreflightOp(name, t, accountIndex) ==
    [op |-> name, id |-> accountIndex, arg |-> t, ret |-> TRUE, before |-> 0,
     pre |-> cache]

PreflightFrame ==
    UNCHANGED <<now, healthConfig, scores, tokenConfig, buckets, accounts,
                currentAccountIndex, guardConfig, admitted, episodeBalance>>

(* A preflight check that skips the cache lookup and always fetches. *)
PreflightStart_AlwaysFetch(t, accountIndex) ==
    /\ steps < MaxSteps
    /\ pc[t] \in {"idle", "done"}
    /\ cache' = cache
    /\ pc' = [pc EXCEPT ![t] = "fetching"]
    /\ task' = [task EXCEPT ![t] =
          [TaskIdle EXCEPT !.account = accountIndex, !.fetches = 1]]
    /\ lastOp' = PreflightOp("preflightStart", t, accountIndex)
    /\ steps' = steps + 1
    /\ UNCHANGED history
    /\ PreflightFrame

(* preflightQuotaCheck up to its first suspension: the cache lookup, and  *)
(* on a hit the whole call; on a miss fetchQuota is called and awaited.    *)
PreflightStart(t, accountIndex) ==
    /\ steps < MaxSteps
    /\ pc[t] \in {"idle", "done"}
    /\ LET got == cacheGet(accountIndex)
       IN  /\ cache' = got.cache
           /\ IF got.value # << >>
              THEN /\ pc' = [pc EXCEPT ![t] = "done"]
                   /\ task' = [task EXCEPT ![t] =
                         [TaskIdle EXCEPT !.account = accountIndex,
                                          !.quota = got.value,
                                          !.result = <<preflightVerdict(got.value)>>]]
              ELSE /\ pc' = [pc EXCEPT ![t] = "fetching"]
                   /\ task' = [task EXCEPT ![t] =
                         [TaskIdle EXCEPT !.account = accountIndex, !.fetches = 1,
                                          !.evicted = (got.cache # cache)]]
    /\ lastOp' = PreflightOp("preflightStart", t, accountIndex)
    /\ steps' = steps + 1
    /\ UNCHANGED history
    /\ PreflightFrame

(* fetchQuota resolves with a QuotaSummary: it is cached, then judged. *)
FetchResolved(t, quota) ==
    /\ steps < MaxSteps
    /\ pc[t] = "fetching"
    /\ cache' = cacheSet(task[t].account, quota)
    /\ pc' = [pc EXCEPT ![t] = "done"]
    /\ task' = [task EXCEPT ![t].quota = <<quota>>, ![t].fetched = "value",
                            ![t].result = <<preflightVerdict(<<quota>>)>>]
    /\ lastOp' = PreflightOp("fetchResolved", t, task[t].account)
    /\ history' = [history EXCEPT !.lastSet[task[t].account] =
                                      <<[quota |-> quota, at |-> now]>>]
    /\ steps' = steps + 1
    /\ PreflightFrame

(* A null result that is cached as a summary without fractions. *)
FetchResolvedNull_CachesNoData(t) ==
    /\ steps < MaxSteps
    /\ pc[t] = "fetching"
    /\ cache' = cacheSet(task[t].account, [g \in Groups |-> Undefined])
    /\ pc' = [pc EXCEPT ![t] = "done"]
    /\ task' = [task EXCEPT ![t].fetched = "null",
                            ![t].result = <<preflightVerdict(<< >>)>>]
    /\ lastOp' = PreflightOp("fetchResolvedNull", t, task[t].account)
    /\ steps' = steps + 1
    /\ UNCHANGED history
    /\ PreflightFrame

(* fetchQuota resolves with null: nothing is cached. *)
FetchResolvedNull(t) ==
    /\ steps < MaxSteps
    /\ pc[t] = "fetching"
    /\ pc' = [pc EXCEPT ![t] = "done"]
    /\ task' = [task EXCEPT ![t].fetched = "null",
                            ![t].result = <<preflightVerdict(<< >>)>>]
    /\ lastOp' = PreflightOp("fetchResolvedNull", t, task[t].account)
    /\ steps' = steps + 1
    /\ UNCHANGED <<cache, history>>
    /\ PreflightFrame

(* fetchQuota rejects (or throws): the catch block ends the call. *)
FetchRejected(t) ==
    /\ steps < MaxSteps
    /\ pc[t] = "fetching"
    /\ pc' = [pc EXCEPT ![t] = "done"]
    /\ task' = [task EXCEPT ![t].fetched = "threw", ![t].result = <<onFetchRejected>>]
    /\ lastOp' = PreflightOp("fetchRejected", t, task[t].account)
    /\ steps' = steps + 1
    /\ UNCHANGED <<cache, history>>
    /\ PreflightFrame

InitPreflight ==
    /\ now = 0
    /\ healthConfig = DEFAULT_HEALTH_SCORE_CONFIG
    /\ scores = EmptyMap
    /\ tokenConfig = DEFAULT_TOKEN_BUCKET_CONFIG
    /\ buckets = EmptyMap
    /\ episodeBalance = [a \in AccountIds |-> DEFAULT_TOKEN_BUCKET_CONFIG.initialTokens]
    /\ accounts = << >>
    /\ currentAccountIndex = NullIndex
    /\ guardConfig \in GuardConfigs
    /\ cache = EmptyMap
    /\ pc = [t \in Tasks |-> "idle"]
    /\ task = [t \in Tasks |-> TaskIdle]
    /\ admitted = [a \in AccountIds |-> 0]
    /\ history = NoHistory
    /\ steps = 0
    /\ lastOp = NoOp

NextPreflight ==
    \/ \E t \in Tasks, a \in AccountIds : PreflightStart(t, a)
    \/ \E t \in Tasks, q \in FetchedQuotas : FetchResolved(t, q)
    \/ \E t \in Tasks : FetchResolvedNull(t)
    \/ \E t \in Tasks : FetchRejected(t)
    \/ \E d \in CacheClockSteps : AdvanceClock(d)

SpecPreflight == InitPreflight /\ [][NextPreflight]_vars

(***************************************************************************)
(* Specification of the quota cache on its own: any sequence of get, set,  *)
(* invalidate and clear calls and elapsed time.                            *)
(***************************************************************************)
(* The summaries the callers store: two that differ in every group. *)
StoredQuotas == { [g \in Groups |-> 40], [g \in Groups |-> 100] }

CacheOp(name, accountIndex, returned) ==
    [op |-> name, id |-> accountIndex, arg |-> 0, ret |-> returned, before |-> 0,
     pre |-> cache]

CacheFrame ==
    UNCHANGED <<now, healthConfig, scores, tokenConfig, buckets, accounts,
                currentAccountIndex, guardConfig, pc, task, admitted,
                episodeBalance>>

(* cache.get(accountIndex) *)
CacheGet(accountIndex) ==
    /\ steps < MaxSteps
    /\ LET got == cacheGet(accountIndex)
       IN  /\ cache' = got.cache
           /\ lastOp' = CacheOp("get", accountIndex, got.value)
    /\ steps' = steps + 1
    /\ UNCHANGED history
    /\ CacheFrame

(* cache.set(accountIndex, quota) *)
CacheSet(accountIndex, quota) ==
    /\ steps < MaxSteps
    /\ cache' = cacheSet(accountIndex, quota)
    /\ lastOp' = CacheOp("set", accountIndex, << >>)
    /\ history' = [history EXCEPT !.lastSet[accountIndex] =
                                      <<[quota |-> quota, at |-> now]>>]
    /\ steps' = steps + 1
    /\ CacheFrame

(* cache.invalidate(accountIndex) *)
CacheInvalidate(accountIndex) ==
    /\ steps < MaxSteps
    /\ cache' = cacheInvalidate(accountIndex)
    /\ lastOp' = CacheOp("invalidate", accountIndex, << >>)
    /\ history' = [history EXCEPT !.lastSet[accountIndex] = << >>]
    /\ steps' = steps + 1
    /\ CacheFrame

(* cache.clear() *)
CacheClear ==
    /\ steps < MaxSteps
    /\ cache' = cacheClear
    /\ lastOp' = CacheOp("clear", NullIndex, << >>)
    /\ history' = [history EXCEPT !.lastSet = [a \in AccountIds |-> << >>]]
    /\ steps' = steps + 1
    /\ CacheFrame

NextCache ==
    \/ \E a \in AccountIds : CacheGet(a)
    \/ \E a \in AccountIds, q \in StoredQuotas : CacheSet(a, q)
    \/ \E a \in AccountIds : CacheInvalidate(a)
    \/ CacheClear
    \/ \E d \in CacheClockSteps : AdvanceClock(d)

SpecCache == InitPreflight /\ [][NextCache]_vars

(***************************************************************************)
(* Specification of preflight checks on a cache their caller also writes:  *)
(* the cache is an argument of preflightQuotaCheck, and whoever holds it   *)
(* can have stored a summary that has expired by the time of a check.      *)
(***************************************************************************)
NextSharedCache ==
    \/ \E t \in Tasks, a \in AccountIds : PreflightStart(t, a)
    \/ \E t \in Tasks, q \in StoredQuotas : FetchResolved(t, q)
    \/ \E t \in Tasks : FetchResolvedNull(t)
    \/ \E t \in Tasks : FetchRejected(t)
    \/ \E a \in AccountIds, q \in StoredQuotas : CacheSet(a, q)
    \/ \E d \in CacheClockSteps : AdvanceClock(d)

SpecSharedCache == InitPreflight /\ [][NextSharedCache]_vars

(***************************************************************************)
(* Specification of calculateMinRemainingPercent, a pure function of the   *)
(* quota summary: the summary is drawn from a bounded set and the only     *)
(* action applies the function to it.                                      *)
(***************************************************************************)
PercentGroups == {"claude", "geminiPro", "geminiFlash"}

(* remainingFraction values in thousandths: 0, 0.04, 0.045, 0.10, 0.145,  *)
(* 0.20 and 1.0.                                                           *)
PercentFractions == {0, 40, 45, 100, 145, 200, 1000}

(* Summaries with any of the groups, each with or without a fraction. *)
PercentQuotas ==
    UNION { [G -> PercentFractions \cup {Undefined}] : G \in SUBSET PercentGroups }

FirstTask == 1

InitPercent ==
    /\ now = 0
    /\ healthConfig = DEFAULT_HEALTH_SCORE_CONFIG
    /\ scores = EmptyMap
    /\ tokenConfig = DEFAULT_TOKEN_BUCKET_CONFIG
    /\ buckets = EmptyMap
    /\ episodeBalance = [a \in AccountIds |-> DEFAULT_TOKEN_BUCKET_CONFIG.initialTokens]
    /\ accounts = << >>
    /\ currentAccountIndex = NullIndex
    /\ guardConfig = DEFAULT_GUARD_CONFIG
    /\ cache = EmptyMap
    /\ pc = [t \in Tasks |-> "idle"]
    /\ \E q \in PercentQuotas :
          task = [t \in Tasks |-> IF t = FirstTask
                                  THEN [TaskIdle EXCEPT !.quota = <<q>>]
                                  ELSE TaskIdle]
    /\ admitted = [a \in AccountIds |-> 0]
    /\ history = NoHistory
    /\ steps = 0
    /\ lastOp = NoOp

(* calculateMinRemainingPercent(quota) on the summary the task holds. *)
CalculatePercent ==
    /\ pc[FirstTask] = "idle"
    /\ pc' = [pc EXCEPT ![FirstTask] = "done"]
    /\ lastOp' = [op |-> "calculateMinRemainingPercent", id |-> NullIndex,
                  arg |-> FirstTask,
                  ret |-> calculateMinRemainingPercent(task[FirstTask].quota[1]),
                  before |-> 0, pre |-> task[FirstTask].quota[1]]
    /\ steps' = steps + 1
    /\ UNCHANGED <<now, healthConfig, scores, tokenConfig, buckets, accounts,
                   currentAccountIndex, guardConfig, cache, task, admitted,
                   episodeBalance, history>>

NextPercent == CalculatePercent

SpecPercent == InitPercent /\ [][NextPercent]_vars

(***************************************************************************)
(* JITTER                                                                  *)
(* addJitter(baseMs, jitterFactor).  baseMs is a number, not only a whole  *)
(* one: it is held in BaseScale-ths of a millisecond (5 stands for 0.5 ms  *)
(* and 10000 for 1000 ms).  The factor is held in hundredths and a draw of *)
(* Math.random() is u / RandomUnits with u in 0 .. RandomUnits-1           *)
(* (Math.random() is in [0, 1)), so base + jitter, in milliseconds, is the *)
(* fraction jitterNumerator / jitterDenominator, computed exactly.         *)
(***************************************************************************)
RandomUnits == 40

BaseScale == 10

DEFAULT_JITTER_FACTOR == 30

jitterDenominator == 100 * RandomUnits * BaseScale

(* baseMs + (Math.random() * 2 - 1) * baseMs * jitterFactor *)
jitterNumerator(baseMs, jitterFactor, u) ==
    baseMs * 100 * RandomUnits + (2 * u - RandomUnits) * baseMs * jitterFactor

(* Math.round(n / d): the nearest integer, a half going up. *)
roundRatio(n, d) == (n \div d) + (IF 2 * (n % d) >= d THEN 1 ELSE 0)

(* A jitter drawn over the whole of the base, whatever the factor. *)
addJitter_WholeBase(baseMs, jitterFactor, u) ==
    Max(0, roundRatio(jitterNumerator(baseMs, 100, u), jitterDenominator))

addJitter(baseMs, jitterFactor, u) ==
    Max(0, roundRatio(jitterNumerator(baseMs, jitterFactor, u), jitterDenominator))

(***************************************************************************)
(* Specification of the wait for an available account.  Every account is   *)
(* rate-limited, each until its reset time; the request polls at          *)
(* WaitPollSeconds, jittered by addJitter, and on every iteration checks   *)
(* the deadline that max_rate_limit_wait_seconds sets from the start of    *)
(* the wait (0: no deadline).  Meanwhile other requests can have an        *)
(* account that is about to reset rate-limited anew, which moves its reset *)
(* time.  The request's locals are task[FirstTask]; the loop always takes  *)
(* its next iteration, which is the fairness of WaitIteration.             *)
(***************************************************************************)
(* config/schema.ts: max_rate_limit_wait_seconds, 0..3600, default 300. *)
DEFAULT_MAX_RATE_LIMIT_WAIT_SECONDS == 300
MaxRateLimitWaits == {0, 45, 60, DEFAULT_MAX_RATE_LIMIT_WAIT_SECONDS}

(* config/schema.ts: default_retry_after_seconds, the default. *)
DEFAULT_RETRY_AFTER_SECONDS == 60

(* The guard's waitPollSeconds, the default. *)
WaitPollSeconds == 30

(* The draws of Math.random() for the jitter of a poll: the shortest      *)
(* sleep, the poll interval itself and the longest sleep.                  *)
WaitDraws == {0, RandomUnits \div 2, RandomUnits - 1}

(* The sleep of one poll: addJitter(waitPollSeconds * 1000). *)
pollSleepMs(u) ==
    addJitter(WaitPollSeconds * 1000 * BaseScale, DEFAULT_JITTER_FACTOR, u)

(* Delays until reset: within every bound, at the 60 s bound exactly, and *)
(* a quota reset beyond every bound.                                       *)
QuotaResetMs == 400 * 1000
ResetDelays == {25 * 1000, 60 * 1000, QuotaResetMs}

(* The delay of a rate limit met during the wait. *)
RenewedDelays == {DEFAULT_RETRY_AFTER_SECONDS * 1000}

minWaitMs(resetAt, t) == MinOf({resetAt[a] - t : a \in DOMAIN resetAt})

(* A loop that never looks at the deadline. *)
waitDecision_NoDeadline(resetAt, startedAt, maxWaitSeconds, t) ==
    IF \E a \in DOMAIN resetAt : resetAt[a] <= t THEN "dispatching"
    ELSE "waiting"

(* One iteration's decision at time t: an account is available, or none   *)
(* can be before the deadline, or the loop sleeps one poll interval.       *)
waitDecision(resetAt, startedAt, maxWaitSeconds, t) ==
    IF \E a \in DOMAIN resetAt : resetAt[a] <= t THEN "dispatching"
    ELSE IF /\ maxWaitSeconds # 0
            /\ t + minWaitMs(resetAt, t) > startedAt + maxWaitSeconds * 1000
    THEN "failed"
    ELSE "waiting"

InitWait ==
    /\ now = 0
    /\ healthConfig = DEFAULT_HEALTH_SCORE_CONFIG
    /\ scores = EmptyMap
    /\ tokenConfig = DEFAULT_TOKEN_BUCKET_CONFIG
    /\ buckets = EmptyMap
    /\ episodeBalance = [a \in AccountIds |-> DEFAULT_TOKEN_BUCKET_CONFIG.initialTokens]
    /\ accounts = << >>
    /\ currentAccountIndex = NullIndex
    /\ guardConfig = DEFAULT_GUARD_CONFIG
    /\ cache = EmptyMap
    /\ pc = [t \in Tasks |-> IF t = FirstTask THEN "waiting" ELSE "idle"]
    /\ \E r \in [AccountIds -> ResetDelays], m \in MaxRateLimitWaits :
          task = [t \in Tasks |->
                    IF t = FirstTask
                    THEN [resetAt |-> r, startedAt |-> 0, maxWaitSeconds |-> m]
                    ELSE TaskIdle]
    /\ admitted = [a \in AccountIds |-> 0]
    /\ history = NoHistory
    /\ steps = 0
    /\ lastOp = NoOp

WaitFrame ==
    UNCHANGED <<healthConfig, scores, tokenConfig, buckets, accounts,
                currentAccountIndex, guardConfig, cache, admitted,
                episodeBalance, history>>

(* One iteration of the loop: decide, and when the decision is to wait,   *)
(* sleep one jittered poll interval, whatever the draw of the jitter.      *)
WaitIteration ==
    /\ pc[FirstTask] = "waiting"
    /\ \E u \in WaitDraws :
          LET w == task[FirstTask]
              d == waitDecision(w.resetAt, w.startedAt, w.maxWaitSeconds, now)
              sleepMs == IF d = "waiting" THEN pollSleepMs(u) ELSE 0
          IN  /\ pc' = [pc EXCEPT ![FirstTask] = d]
              /\ now' = now + sleepMs
              /\ lastOp' = [NoOp EXCEPT !.op = "waitIteration",
                                        !.arg = FirstTask, !.ret = sleepMs]
    /\ UNCHANGED <<task, steps>>
    /\ WaitFrame

(* Another request takes an account that is about to reset and is        *)
(* answered 429: its reset time moves to now + delay.                      *)
RateLimitRenewed(accountIndex, delay) ==
    /\ pc[FirstTask] = "waiting"
    /\ steps < MaxSteps
    /\ task[FirstTask].resetAt[accountIndex] <= now + WaitPollSeconds * 1000
    /\ task' = [task EXCEPT ![FirstTask].resetAt[accountIndex] = now + delay]
    /\ lastOp' = [NoOp EXCEPT !.op = "rateLimitRenewed", !.id = accountIndex]
    /\ steps' = steps + 1
    /\ UNCHANGED <<now, pc>>
    /\ WaitFrame

NextWait ==
    \/ WaitIteration
    \/ \E a \in AccountIds, d \in RenewedDelays : RateLimitRenewed(a, d)

SpecWait == InitWait /\ [][NextWait]_vars /\ WF_vars(WaitIteration)

(***************************************************************************)
(* Specification of addJitter, a function of its arguments and one random  *)
(* draw: the arguments are drawn from bounded sets and the only action     *)
(* applies the function with any draw.                                     *)
(***************************************************************************)
JitterBases == {0, 4, 5, 25, 3 * BaseScale, 10 * BaseScale, 1000 * BaseScale}
JitterFactors == {0, DEFAULT_JITTER_FACTOR, 90, 99}

InitJitter ==
    /\ now = 0
    /\ healthConfig = DEFAULT_HEALTH_SCORE_CONFIG
    /\ scores = EmptyMap
    /\ tokenConfig = DEFAULT_TOKEN_BUCKET_CONFIG
    /\ buckets = EmptyMap
    /\ episodeBalance = [a \in AccountIds |-> DEFAULT_TOKEN_BUCKET_CONFIG.initialTokens]
    /\ accounts = << >>
    /\ currentAccountIndex = NullIndex
    /\ guardConfig = DEFAULT_GUARD_CONFIG
    /\ cache = EmptyMap
    /\ pc = [t \in Tasks |-> "idle"]
    /\ \E b \in JitterBases, f \in JitterFactors :
          task = [t \in Tasks |->
                    IF t = FirstTask THEN [baseMs |-> b, jitterFactor |-> f]
                    ELSE TaskIdle]
    /\ admitted = [a \in AccountIds |-> 0]
    /\ history = NoHistory
    /\ steps = 0
    /\ lastOp = NoOp

(* addJitter(baseMs, jitterFactor) with Math.random() = u / RandomUnits. *)
AddJitter(u) ==
    /\ lastOp' = [op |-> "addJitter", id |-> NullIndex, arg |-> u,
                  ret |-> addJitter(task[FirstTask].baseMs,
                                    task[FirstTask].jitterFactor, u),
                  before |-> 0, pre |-> EmptyMap]
    /\ UNCHANGED <<now, healthConfig, scores, tokenConfig, buckets, accounts,
                   currentAccountIndex, guardConfig, cache, pc, task, admitted,
                   episodeBalance, steps, history>>

NextJitter == \E u \in 0 .. (RandomUnits - 1) : AddJitter(u)

SpecJitter == InitJitter /\ [][NextJitter]_vars

(***************************************************************************)
(* MODEL RESOLUTION                                                        *)
(* A model name is the sequence of its parts between hyphens, all in lower *)
(* case: "gemini-3-pro-high" is <<"gemini", "3", "pro", "high">>.  An      *)
(* optional field of ResolvedModel is a sequence of length 0 or 1.         *)
(***************************************************************************)
THINKING_TIER_BUDGETS ==
    [claude |-> [low |-> 8192, medium |-> 16384, high |-> 32768],
     gemini25pro |-> [low |-> 8192, medium |-> 16384, high |-> 32768],
     gemini25flash |-> [low |-> 6144, medium |-> 12288, high |-> 24576],
     default |-> [low |-> 4096, medium |-> 8192, high |-> 16384]]

GEMINI_3_THINKING_LEVELS == {"low", "medium", "high"}

(* MODEL_ALIASES[model]; << >> when the name has no alias. *)
MODEL_ALIASES(model) ==
    CASE model = <<"gemini", "claude", "sonnet", "4", "5">> ->
             <<"claude", "sonnet", "4", "5">>
      [] model \in {<<"gemini", "claude", "sonnet", "4", "5", "thinking", t>> :
                        t \in {"low", "medium", "high"}} ->
             <<"claude", "sonnet", "4", "5", "thinking">>
      [] model \in {<<"gemini", "claude", "opus", "4", "5", "thinking", t>> :
                        t \in {"low", "medium", "high"}} ->
             <<"claude", "opus", "4", "5", "thinking">>
      [] model = <<"gemini", "3", "pro", "image", "preview">> ->
             <<"gemini", "3", "pro", "image">>
      [] OTHER -> << >>

(* MODEL_FALLBACKS[model]; << >> when the name has no fallback. *)
MODEL_FALLBACKS(model) ==
    IF model = <<"gemini", "2.5", "flash", "image">>
    THEN <<"gemini", "2.5", "flash">> ELSE << >>

(* model.match(/-(low|medium|high)$/)?.[1] *)
extractThinkingTierFromModel(model) ==
    IF Len(model) >= 2 /\ model[Len(model)] \in {"low", "medium", "high"}
    THEN <<model[Len(model)]>> ELSE << >>

(* model.replace(/-(low|medium|high)$/, "") *)
replaceTier(model) ==
    IF extractThinkingTierFromModel(model) # << >>
    THEN SubSeq(model, 1, Len(model) - 1) ELSE model

(* model.includes(part) and model.includes(a + "-" + b [+ "-" + c]) for   *)
(* parts that are whole parts of the names of the model.                   *)
includesPart(model, part) == \E i \in 1 .. Len(model) : model[i] = part

includesParts(model, parts) ==
    \E i \in 0 .. (Len(model) - Len(parts)) :
       \A j \in 1 .. Len(parts) : model[i + j] = parts[j]

getBudgetFamily(model) ==
    IF includesPart(model, "claude") THEN "claude"
    ELSE IF includesParts(model, <<"gemini", "2.5", "pro">>) THEN "gemini25pro"
    ELSE IF includesParts(model, <<"gemini", "2.5", "flash">>) THEN "gemini25flash"
    ELSE "default"

isThinkingCapableModel(model) ==
    \/ includesPart(model, "thinking")
    \/ includesParts(model, <<"gemini", "3">>)
    \/ includesParts(model, <<"gemini", "2.5">>)

resolveModelWithTier(requestedModel) ==
    LET tier == extractThinkingTierFromModel(requestedModel)
        baseName == IF tier # << >> THEN replaceTier(requestedModel) ELSE requestedModel
        isGemini3 == includesParts(requestedModel, <<"gemini", "3">>)
        actualModel ==
            IF MODEL_ALIASES(requestedModel) # << >> THEN MODEL_ALIASES(requestedModel)
            ELSE IF MODEL_ALIASES(baseName) # << >> THEN MODEL_ALIASES(baseName)
            ELSE baseName
        resolvedModel ==
            IF MODEL_FALLBACKS(actualModel) # << >> THEN MODEL_FALLBACKS(actualModel)
            ELSE actualModel
        isThinking == isThinkingCapableModel(resolvedModel)
    IN  IF isGemini3 /\ tier # << >>
        THEN [actualModel |-> requestedModel, thinkingLevel |-> tier,
              thinkingBudget |-> << >>, tier |-> tier, isThinkingModel |-> TRUE]
        ELSE IF tier = << >>
        THEN [actualModel |-> resolvedModel, thinkingLevel |-> << >>,
              thinkingBudget |-> << >>, tier |-> << >>, isThinkingModel |-> isThinking]
        ELSE IF includesParts(resolvedModel, <<"gemini", "3">>)
        THEN [actualModel |-> resolvedModel, thinkingLevel |-> tier,
              thinkingBudget |-> << >>, tier |-> tier, isThinkingModel |-> TRUE]
        ELSE [actualModel |-> resolvedModel, thinkingLevel |-> << >>,
              thinkingBudget |-> <<THINKING_TIER_BUDGETS[getBudgetFamily(resolvedModel)][tier[1]]>>,
              tier |-> tier, isThinkingModel |-> isThinking]

(***************************************************************************)
(* Specification of resolveModelWithTier, a pure function of the requested *)
(* name: the name is drawn from a bounded set and the only action applies  *)
(* the function.                                                           *)
(***************************************************************************)
BaseModels ==
    { <<"gemini", "3", "pro">>, <<"gemini", "3", "flash">>,
      <<"gemini", "3", "pro", "preview">>, <<"gemini", "3", "pro", "image", "preview">>,
      <<"gemini", "2.5", "pro">>, <<"gemini", "2.5", "flash">>,
      <<"gemini", "2.5", "flash", "image">>, <<"gemini", "2.0", "flash">>,
      <<"claude", "sonnet", "4", "5">>, <<"claude", "sonnet", "4", "5", "thinking">>,
      <<"claude", "opus", "4", "5", "thinking">>,
      <<"gemini", "claude", "sonnet", "4", "5">>,
      <<"gemini", "claude", "sonnet", "4", "5", "thinking">>,
      <<"gemini", "claude", "opus", "4", "5", "thinking">>,
      <<"gpt", "oss">>, <<"high">> }

(* Each base name as it is and with each tier suffix. *)
RequestedModels ==
    BaseModels \cup {b \o <<t>> : b \in BaseModels, t \in {"low", "medium", "high"}}

InitResolve ==
    /\ now = 0
    /\ healthConfig = DEFAULT_HEALTH_SCORE_CONFIG
    /\ scores = EmptyMap
    /\ tokenConfig = DEFAULT_TOKEN_BUCKET_CONFIG
    /\ buckets = EmptyMap
    /\ episodeBalance = [a \in AccountIds |-> DEFAULT_TOKEN_BUCKET_CONFIG.initialTokens]
    /\ accounts = << >>
    /\ currentAccountIndex = NullIndex
    /\ guardConfig = DEFAULT_GUARD_CONFIG
    /\ cache = EmptyMap
    /\ pc = [t \in Tasks |-> "idle"]
    /\ \E m \in RequestedModels :
          task = [t \in Tasks |->
                    IF t = FirstTask THEN [requestedModel |-> m] ELSE TaskIdle]
    /\ admitted = [a \in AccountIds |-> 0]
    /\ history = NoHistory
    /\ steps = 0
    /\ lastOp = NoOp

(* resolveModelWithTier(requestedModel) on the name the task holds. *)
ResolveModel ==
    /\ pc[FirstTask] = "idle"
    /\ pc' = [pc EXCEPT ![FirstTask] = "done"]
    /\ lastOp' = [op |-> "resolveModelWithTier", id |-> NullIndex, arg |-> FirstTask,
                  ret |-> resolveModelWithTier(task[FirstTask].requestedModel),
                  before |-> 0, pre |-> EmptyMap]
    /\ steps' = steps + 1
    /\ UNCHANGED <<now, healthConfig, scores, tokenConfig, buckets, accounts,
                   currentAccountIndex, guardConfig, cache, task, admitted,
                   episodeBalance, history>>

NextResolve == ResolveModel

SpecResolve == InitResolve /\ [][NextResolve]_vars

(***************************************************************************)
(* CONFIGURATION FILE UPDATER                                              *)
(* The file is absent, or holds text JSON.parse rejects, or holds the text *)
(* of a configuration object.  The object is a record of the keys the      *)
(* updater reads ($schema, plugin, provider with google and another        *)
(* provider) and one other top-level key, theme; an optional key is a      *)
(* sequence of length 0 or 1.  The string values of theme, of the other    *)
(* provider and of google's apiKey are sequences of characters, because    *)
(* the updater edits the text of the file before parsing it.  An entry of  *)
(* the plugin list is a sequence of pieces of text, read one after the     *)
(* other: <<"yldst-", "opencode-antigravity-auth", "@latest">> is the      *)
(* entry "yldst-opencode-antigravity-auth@latest".  The name the updater   *)
(* searches for is one piece, and the pieces of every entry are cut so     *)
(* that the name is in the entry's text exactly when it is among them.     *)
(***************************************************************************)
PLUGIN_NAME == <<"opencode-antigravity-auth", "@latest">>
SCHEMA_URL == "https://opencode.ai/config.json"

(* { ...OPENCODE_MODEL_DEFINITIONS } *)
OPENCODE_MODEL_DEFINITIONS == "plugin models"

(* String.prototype.includes: search is a run of consecutive pieces of    *)
(* text, anywhere in it.                                                   *)
includes(text, search) ==
    \E i \in 1 .. (Len(text) - Len(search) + 1) :
       SubSeq(text, i, i + Len(search) - 1) = search

(* p.includes("opencode-antigravity-auth"): the name anywhere in the      *)
(* entry, whatever stands before or after it.                              *)
includesPluginName(p) == includes(p, <<"opencode-antigravity-auth">>)

(* The second replace of stripJsonCommentsAndTrailingCommas,              *)
(* /,(\s*[}\]])/g -> "$1", on a stretch of the text: every comma that is   *)
(* followed, after any blanks, by } or ] is dropped.  The replace runs     *)
(* over the whole text, string literals included.                          *)
isTrailingComma(text, i) ==
    /\ text[i] = ","
    /\ \E j \in (i + 1) .. Len(text) :
          /\ text[j] \in {"}", "]"}
          /\ \A k \in (i + 1) .. (j - 1) : text[k] = " "

stripTrailingCommas(text) ==
    LET F[i \in 0 .. Len(text)] ==
            IF i = 0 THEN << >>
            ELSE IF isTrailingComma(text, i) THEN F[i - 1]
            ELSE Append(F[i - 1], text[i])
    IN  F[Len(text)]

(* A parse that reads every string literal as it is written. *)
parseStripped_StringAware(config) == config

(* JSON.parse(stripJsonCommentsAndTrailingCommas(content)) for the text   *)
(* of a configuration object: comments and trailing commas between the     *)
(* values are dropped, and so are the commas the second replace finds      *)
(* inside the string values.                                               *)
parseStripped(config) ==
    [config EXCEPT
        !.theme = stripTrailingCommas(@),
        !.provider =
            IF @ = << >> THEN << >>
            ELSE <<[@[1] EXCEPT
                      !.other = stripTrailingCommas(@),
                      !.google =
                          IF @ = << >> THEN << >>
                          ELSE <<[@[1] EXCEPT !.apiKey = stripTrailingCommas(@)]>>]>>]

(* Lines 128-155 on the parsed object. *)
updatedConfig(config) ==
    LET plugin == IF config.plugin = << >> THEN << >> ELSE config.plugin[1]
        hasPlugin == \E i \in 1 .. Len(plugin) : includesPluginName(plugin[i])
        provider == IF config.provider = << >>
                    THEN [google |-> << >>, other |-> << >>]
                    ELSE config.provider[1]
        google == IF provider.google = << >> THEN [models |-> << >>, apiKey |-> << >>]
                  ELSE provider.google[1]
    IN  [config EXCEPT
            !.schema = IF @ = << >> THEN <<SCHEMA_URL>> ELSE @,
            !.plugin = <<IF hasPlugin THEN plugin ELSE Append(plugin, PLUGIN_NAME)>>,
            !.provider =
                <<[provider EXCEPT
                      !.google = <<[google EXCEPT
                                       !.models = <<OPENCODE_MODEL_DEFINITIONS>>]>>]>>]

AbsentFile == [kind |-> "absent"]
InvalidFile == [kind |-> "invalid"]
JsonFile(config) == [kind |-> "json", config |-> config]

(* The object of lines 121-125. *)
DefaultConfig ==
    [schema |-> <<SCHEMA_URL>>, plugin |-> << << >> >>, theme |-> << >>,
     provider |-> <<[google |-> << >>, other |-> << >>]>>]

Succeeded == [success |-> TRUE, error |-> << >>]
Failed(message) == [success |-> FALSE, error |-> <<message>>]

(* What becomes of the write of lines 157-164: "written", the file holds  *)
(* the new text; "refused", mkdirSync throws or writeFileSync cannot open   *)
(* the file, which is left as it was; "truncated", writeFileSync has        *)
(* opened the file, which empties it, and the write then fails: the file    *)
(* exists and holds no text, so it no longer parses.                        *)
WriteOutcomes == {"written", "refused", "truncated"}

(* updateOpencodeConfig: the result returned and the file left behind. *)
updateOpencodeConfig(file, write) ==
    IF file.kind = "invalid"
    THEN [result |-> Failed("parse"), file |-> file]
    ELSE LET config == IF file.kind = "json" THEN parseStripped(file.config)
                       ELSE DefaultConfig
         IN  CASE write = "written" ->
                    [result |-> Succeeded, file |-> JsonFile(updatedConfig(config))]
               [] write = "refused" ->
                    [result |-> Failed("write"), file |-> file]
               [] OTHER ->
                    [result |-> Failed("write"), file |-> InvalidFile]

(***************************************************************************)
(* Specification of the updater: the file is drawn from a bounded set and  *)
(* updateOpencodeConfig is applied to it, repeatedly.                      *)
(***************************************************************************)
ThemeTexts == { <<"d", "a", "r", "k">>, <<"a", ",", "]">>, <<",", ",", " ", "}">> }
KeyTexts == { <<"k">>, <<"k", ",", "}">> }
(* Entries of a plugin list: another plugin, the plugin at a version,     *)
(* the plugin without a version, the fork the README installs, whose name  *)
(* contains the plugin's, and a name that stops short of the plugin's.     *)
OtherPlugin == <<"other-plugin">>
VersionedPlugin == <<"opencode-antigravity-auth", "@1.0.0">>
BarePlugin == <<"opencode-antigravity-auth">>
ForkPlugin == <<"yldst-", "opencode-antigravity-auth", "@latest">>
ShortPlugin == <<"opencode-antigravity">>

PluginLists ==
    { << >>, <<OtherPlugin>>, <<OtherPlugin, VersionedPlugin>>, <<BarePlugin>>,
      <<ForkPlugin>>, <<ShortPlugin>> }

GoogleSections ==
    { << >> } \cup
    { <<[models |-> <<m>>, apiKey |-> k]>> :
         m \in {"user models", OPENCODE_MODEL_DEFINITIONS}, k \in KeyTexts }

ProviderSections ==
    { << >> } \cup
    { <<[google |-> g, other |-> o]>> : g \in GoogleSections, o \in KeyTexts }

ConfigObjects ==
    [schema : { << >>, <<"https://example.com/schema.json">> },
     plugin : { << >> } \cup { <<l>> : l \in PluginLists },
     theme : ThemeTexts,
     provider : ProviderSections]

ConfigFiles == {AbsentFile, InvalidFile} \cup {JsonFile(c) : c \in ConfigObjects}

InitUpdater ==
    /\ now = 0
    /\ healthConfig = DEFAULT_HEALTH_SCORE_CONFIG
    /\ scores = EmptyMap
    /\ tokenConfig = DEFAULT_TOKEN_BUCKET_CONFIG
    /\ buckets = EmptyMap
    /\ episodeBalance = [a \in AccountIds |-> DEFAULT_TOKEN_BUCKET_CONFIG.initialTokens]
    /\ accounts = << >>
    /\ currentAccountIndex = NullIndex
    /\ guardConfig = DEFAULT_GUARD_CONFIG
    /\ cache = EmptyMap
    /\ pc = [t \in Tasks |-> "idle"]
    /\ \E f \in ConfigFiles :
          task = [t \in Tasks |->
                    IF t = FirstTask THEN [file |-> f, updates |-> 0] ELSE TaskIdle]
    /\ admitted = [a \in AccountIds |-> 0]
    /\ history = NoHistory
    /\ steps = 0
    /\ lastOp = NoOp

(* One call of updateOpencodeConfig; lastOp keeps the file it found and   *)
(* the number of calls that had succeeded before.                          *)
UpdateConfig(write) ==
    /\ steps < MaxSteps
    /\ LET out == updateOpencodeConfig(task[FirstTask].file, write)
       IN  /\ task' = [task EXCEPT
                          ![FirstTask].file = out.file,
                          ![FirstTask].updates =
                              @ + (IF out.result.success THEN 1 ELSE 0)]
           /\ lastOp' = [op |-> "updateOpencodeConfig", id |-> NullIndex,
                         arg |-> FirstTask, ret |-> out.result,
                         before |-> task[FirstTask].updates,
                         pre |-> task[FirstTask].file]
    /\ steps' = steps + 1
    /\ UNCHANGED <<now, healthConfig, scores, tokenConfig, buckets, accounts,
                   currentAccountIndex, guardConfig, cache, pc, admitted,
                   episodeBalance, history>>

NextUpdater == \E w \in WriteOutcomes : UpdateConfig(w)

SpecUpdater == InitUpdater /\ [][NextUpdater]_vars

(***************************************************************************)
(* INTERACTIVE SELECT MENU (src/src/plugin/ui/select.ts)                   *)
(* items is the MenuItem<T>[] given to select(); indices are those of the  *)
(* code, from 0.  A value of type T | null is a sequence of length 0 or 1. *)
(* The state of one call of select() is a record: the closure variables    *)
(* cursor, escapeTimeout and isCleanedUp, the listeners attached to stdin  *)
(* and process, the timer, the window of the last render and the calls of  *)
(* resolve made so far with the value the promise settled on.              *)
(***************************************************************************)
ItemKinds == {"item", "disabled", "separator", "heading"}

(* The MenuItem of a kind at an index; its value is the index. *)
menuItem(kind, i) ==
    [value |-> <<i>>,
     disabled |-> (kind = "disabled"),
     separator |-> (kind = "separator"),
     kind |-> IF kind = "heading" THEN "heading" ELSE "none"]

MenuLengths == 0 .. 4

MenuItemLists ==
    UNION { { [i \in 1 .. n |-> menuItem(k[i], i - 1)] : k \in [1 .. n -> ItemKinds] }
            : n \in MenuLengths }

(* stdout.rows ?? 24: a terminal of seven rows, and one that reports none. *)
DEFAULT_ROWS == 24
MenuRows == {7, DEFAULT_ROWS}

(* items[i] *)
itemAt(items, i) == items[i + 1]

isSelectable(i) == ~i.disabled /\ ~i.separator /\ i.kind # "heading"

(* items.filter(isSelectable), as the indices kept. *)
enabledItems(items) == {i \in 0 .. (Len(items) - 1) : isSelectable(itemAt(items, i))}

(* items.findIndex(isSelectable) *)
findIndexSelectable(items) ==
    IF enabledItems(items) = {} THEN NullIndex
    ELSE CHOOSE i \in enabledItems(items) : \A j \in enabledItems(items) : i <= j

(* The do-while loop of findNextSelectable does not end. *)
NeverReturns == NullIndex - 1

(* The loop of findNextSelectable: it steps once, then again while the     *)
(* item it is on is disabled, a separator or a heading.  The positions     *)
(* repeat after items.length steps, so a loop that has found nothing by    *)
(* then never ends.                                                        *)
RECURSIVE searchSelectable(_, _, _, _)
searchSelectable(items, from, direction, left) ==
    LET next == (from + direction + Len(items)) % Len(items)
    IN  IF isSelectable(itemAt(items, next)) THEN next
        ELSE IF left = 0 THEN NeverReturns
        ELSE searchSelectable(items, next, direction, left - 1)

(* A step to the neighbouring item, whatever it is. *)
findNextSelectable_AnyItem(items, from, direction) ==
    IF Len(items) = 0 THEN from
    ELSE (from + direction + Len(items)) % Len(items)

findNextSelectable(items, from, direction) ==
    IF Len(items) = 0 THEN from
    ELSE searchSelectable(items, from, direction, Len(items))

(* A window around the cursor that is not held inside the list. *)
renderWindow_Unclamped(length, rows, hasSubtitle, cursor) ==
    LET subtitleLines == IF hasSubtitle THEN 3 ELSE 0
        fixedLines == 1 + subtitleLines + 2
        maxVisibleItems == Max(1, Min(length, rows - fixedLines - 1))
    IN  IF length > maxVisibleItems
        THEN [windowStart |-> cursor - (maxVisibleItems \div 2),
              windowEnd |-> cursor - (maxVisibleItems \div 2) + maxVisibleItems,
              maxVisibleItems |-> maxVisibleItems]
        ELSE [windowStart |-> 0, windowEnd |-> length,
              maxVisibleItems |-> maxVisibleItems]

(* render: the window of items it writes (lines 130-147). *)
renderWindow(length, rows, hasSubtitle, cursor) ==
    LET subtitleLines == IF hasSubtitle THEN 3 ELSE 0
        fixedLines == 1 + subtitleLines + 2
        maxVisibleItems == Max(1, Min(length, rows - fixedLines - 1))
    IN  IF length > maxVisibleItems
        THEN LET windowStart ==
                     Max(0, Min(cursor - (maxVisibleItems \div 2),
                                length - maxVisibleItems))
             IN  [windowStart |-> windowStart,
                  windowEnd |-> windowStart + maxVisibleItems,
                  maxVisibleItems |-> maxVisibleItems]
        ELSE [windowStart |-> 0, windowEnd |-> length,
              maxVisibleItems |-> maxVisibleItems]

(* render() of a menu. *)
render(m) ==
    [m EXCEPT !.window = renderWindow(Len(m.items), m.rows, m.hasSubtitle, m.cursor)]

NoWindow == [windowStart |-> 0, windowEnd |-> 0, maxVisibleItems |-> 0]

(* A call of select() that has not run yet. *)
MenuCall(items, rows) ==
    [items |-> items, rows |-> rows, hasSubtitle |-> FALSE, cursor |-> 0,
     escapeTimeout |-> FALSE, timerPending |-> FALSE, isCleanedUp |-> FALSE,
     keyListener |-> FALSE, signalListeners |-> {}, window |-> NoWindow,
     resolveCalls |-> 0, settled |-> << >>, error |-> ""]

Signals == {"SIGINT", "SIGTERM"}

(* parseKey(data) *)
KeyActions == {"up", "down", "enter", "escape", "escape-start", "unknown"}

(* A cleanup that leaves the escape timer running. *)
cleanup_KeepsTimer(m) ==
    IF m.isCleanedUp THEN m
    ELSE [m EXCEPT !.isCleanedUp = TRUE,
                   !.keyListener = FALSE,
                   !.signalListeners = {}]

cleanup(m) ==
    IF m.isCleanedUp THEN m
    ELSE [m EXCEPT !.isCleanedUp = TRUE,
                   !.escapeTimeout = FALSE,
                   !.timerPending = FALSE,
                   !.keyListener = FALSE,
                   !.signalListeners = {}]

(* resolve(value): the first call settles the promise. *)
resolve(m, value) ==
    [m EXCEPT !.resolveCalls = @ + 1,
              !.settled = IF @ = << >> THEN <<value>> ELSE @]

onSignal(m) == resolve(cleanup(m), << >>)

finishWithValue(m, value) == resolve(cleanup(m), value)

(* onKey(data), parseKey(data) being action. *)
onKey(m, action) ==
    LET cleared == [m EXCEPT !.escapeTimeout = FALSE, !.timerPending = FALSE]
    IN  CASE action = "up" ->
               render([cleared EXCEPT
                          !.cursor = findNextSelectable(m.items, m.cursor, -1)])
          [] action = "down" ->
               render([cleared EXCEPT
                          !.cursor = findNextSelectable(m.items, m.cursor, 1)])
          [] action = "enter" ->
               finishWithValue(cleared,
                   IF m.cursor \in 0 .. (Len(m.items) - 1)
                   THEN itemAt(m.items, m.cursor).value ELSE << >>)
          [] action = "escape" -> finishWithValue(cleared, << >>)
          [] action = "escape-start" ->
               [cleared EXCEPT !.escapeTimeout = TRUE, !.timerPending = TRUE]
          [] OTHER -> cleared

(* select() up to the point where it waits for events: lines 85-101 and    *)
(* 298-314.                                                                *)
selectStart(m, tty, rawModeFails) ==
    IF ~tty THEN [m EXCEPT !.error = "Interactive select requires a TTY terminal"]
    ELSE IF Len(m.items) = 0 THEN [m EXCEPT !.error = "No menu items provided"]
    ELSE IF enabledItems(m.items) = {} THEN [m EXCEPT !.error = "All items disabled"]
    ELSE IF Cardinality(enabledItems(m.items)) = 1
    THEN resolve(m, itemAt(m.items, findIndexSelectable(m.items)).value)
    ELSE LET placed == [m EXCEPT !.cursor = findIndexSelectable(m.items),
                                 !.signalListeners = Signals]
         IN  IF rawModeFails THEN resolve(cleanup(placed), << >>)
             ELSE [render(placed) EXCEPT !.keyListener = TRUE]

(* Where the promise of a call stands. *)
promiseState(m) ==
    IF m.error # "" THEN "rejected"
    ELSE IF m.resolveCalls > 0 THEN "resolved"
    ELSE "pending"

MenuOp(name, action, handled) ==
    [op |-> name, id |-> NullIndex, arg |-> action, ret |-> handled,
     before |-> task[FirstTask].cursor, pre |-> EmptyMap]

MenuFrame ==
    UNCHANGED <<now, healthConfig, scores, tokenConfig, buckets, accounts,
                currentAccountIndex, guardConfig, cache, admitted,
                episodeBalance, history>>

InitMenu ==
    /\ now = 0
    /\ healthConfig = DEFAULT_HEALTH_SCORE_CONFIG
    /\ scores = EmptyMap
    /\ tokenConfig = DEFAULT_TOKEN_BUCKET_CONFIG
    /\ buckets = EmptyMap
    /\ episodeBalance = [a \in AccountIds |-> DEFAULT_TOKEN_BUCKET_CONFIG.initialTokens]
    /\ accounts = << >>
    /\ currentAccountIndex = NullIndex
    /\ guardConfig = DEFAULT_GUARD_CONFIG
    /\ cache = EmptyMap
    /\ pc = [t \in Tasks |-> IF t = FirstTask THEN "called" ELSE "idle"]
    /\ \E items \in MenuItemLists, rows \in MenuRows :
          task = [t \in Tasks |->
                    IF t = FirstTask THEN MenuCall(items, rows) ELSE TaskIdle]
    /\ admitted = [a \in AccountIds |-> 0]
    /\ history = NoHistory
    /\ steps = 0
    /\ lastOp = NoOp

(* select(items, options) runs until it returns its promise. *)
SelectStart(tty, rawModeFails) ==
    /\ pc[FirstTask] = "called"
    /\ task' = [task EXCEPT ![FirstTask] = selectStart(@, tty, rawModeFails)]
    /\ pc' = [pc EXCEPT ![FirstTask] = promiseState(task'[FirstTask])]
    /\ lastOp' = MenuOp("select", "", TRUE)
    /\ UNCHANGED steps
    /\ MenuFrame

(* stdin emits 'data': onKey runs if it is still a listener. *)
KeyEvent(action) ==
    /\ pc[FirstTask] \in {"pending", "resolved"}
    /\ steps < MaxSteps
    /\ task' = [task EXCEPT ![FirstTask] =
                   IF @.keyListener THEN onKey(@, action) ELSE @]
    /\ pc' = [pc EXCEPT ![FirstTask] = promiseState(task'[FirstTask])]
    /\ lastOp' = MenuOp("onKey", action, task[FirstTask].keyListener)
    /\ steps' = steps + 1
    /\ MenuFrame

(* The timer set for a bare escape byte runs out: its callback runs. *)
EscapeTimerFires ==
    /\ pc[FirstTask] \in {"pending", "resolved"}
    /\ steps < MaxSteps
    /\ task[FirstTask].timerPending
    /\ task' = [task EXCEPT ![FirstTask] =
                   finishWithValue([@ EXCEPT !.timerPending = FALSE], << >>)]
    /\ pc' = [pc EXCEPT ![FirstTask] = promiseState(task'[FirstTask])]
    /\ lastOp' = MenuOp("escapeTimeout", "", TRUE)
    /\ steps' = steps + 1
    /\ MenuFrame

(* The process receives SIGINT or SIGTERM: a listener registered with      *)
(* process.once is removed, then called.                                   *)
SignalEvent(signal) ==
    /\ pc[FirstTask] \in {"pending", "resolved"}
    /\ steps < MaxSteps
    /\ task' = [task EXCEPT ![FirstTask] =
                   IF signal \in @.signalListeners
                   THEN onSignal([@ EXCEPT !.signalListeners = @ \ {signal}])
                   ELSE @]
    /\ pc' = [pc EXCEPT ![FirstTask] = promiseState(task'[FirstTask])]
    /\ lastOp' = MenuOp("onSignal", signal, signal \in task[FirstTask].signalListeners)
    /\ steps' = steps + 1
    /\ MenuFrame

NextMenu ==
    \/ \E tty \in BOOLEAN, rawModeFails \in BOOLEAN : SelectStart(tty, rawModeFails)
    \/ \E action \in KeyActions : KeyEvent(action)
    \/ EscapeTimerFires
    \/ \E signal \in Signals : SignalEvent(signal)

SpecMenu == InitMenu /\ [][NextMenu]_vars

(***************************************************************************)
(* Specification of the render window alone: one render of a list of each  *)
(* length, at each cursor position and terminal height, with and without   *)
(* a subtitle.                                                             *)
(***************************************************************************)
WindowLengths == 1 .. 8
WindowRows == (0 .. 14) \cup {DEFAULT_ROWS}

InitWindow ==
    /\ now = 0
    /\ healthConfig = DEFAULT_HEALTH_SCORE_CONFIG
    /\ scores = EmptyMap
    /\ tokenConfig = DEFAULT_TOKEN_BUCKET_CONFIG
    /\ buckets = EmptyMap
    /\ episodeBalance = [a \in AccountIds |-> DEFAULT_TOKEN_BUCKET_CONFIG.initialTokens]
    /\ accounts = << >>
    /\ currentAccountIndex = NullIndex
    /\ guardConfig = DEFAULT_GUARD_CONFIG
    /\ cache = EmptyMap
    /\ pc = [t \in Tasks |-> "idle"]
    /\ \E length \in WindowLengths, rows \in WindowRows, hasSubtitle \in BOOLEAN :
          \E cursor \in 0 .. (length - 1) :
             task = [t \in Tasks |->
                       IF t = FirstTask
                       THEN [length |-> length, rows |-> rows,
                             hasSubtitle |-> hasSubtitle, cursor |-> cursor]
                       ELSE TaskIdle]
    /\ admitted = [a \in AccountIds |-> 0]
    /\ history = NoHistory
    /\ steps = 0
    /\ lastOp = NoOp

RenderWindow ==
    /\ lastOp' = [op |-> "render", id |-> NullIndex, arg |-> 0,
                  ret |-> renderWindow(task[FirstTask].length, task[FirstTask].rows,
                                       task[FirstTask].hasSubtitle,
                                       task[FirstTask].cursor),
                  before |-> 0, pre |-> EmptyMap]
    /\ UNCHANGED <<now, healthConfig, scores, tokenConfig, buckets, accounts,
                   currentAccountIndex, guardConfig, cache, pc, task, admitted,
                   episodeBalance, steps, history>>

NextWindow == RenderWindow

SpecWindow == InitWindow /\ [][NextWindow]_vars

(***************************************************************************)
(* PROPERTIES                                                              *)
(***************************************************************************)

(* C1: for every account index, getScore is within [0, maxScore] after    *)
(* any sequence of record calls, resets and elapsed time, an index never   *)
(* recorded included.                                                      *)
C1_ScoreWithinBounds ==
    \A a \in AccountIds : 0 <= getScore(a) /\ getScore(a) <= healthConfig.maxScore

(* C2: with the tasks of one episode (no regeneration in between) each    *)
(* selecting and then consuming at the same cost, the consume calls that   *)
(* returned true for an account never exceed floor(balance / cost).  The   *)
(* count and the balance are those of the token tracker in place: an       *)
(* episode begins when time has passed or initTokenTracker has put a new   *)
(* tracker in place.                                                       *)
C2_AdmittedWithinBalance ==
    \A a \in AccountIds : \A t \in Tasks :
        admitted[a] <= episodeBalance[a] \div task[t].cost

(* Two tasks were handed the same account; one was admitted, the other    *)
(* rejected.                                                               *)
C2_Witness ==
    \E t1 \in Tasks, t2 \in Tasks :
        /\ pc[t1] = "admitted"
        /\ pc[t2] = "rejected"
        /\ task[t1].account = task[t2].account
        /\ lastOp.op = "consume"

(* C3: consume returns false and leaves the bucket (balance, lastUpdated) *)
(* as it was when the cost exceeds the available tokens; otherwise it      *)
(* returns true and the balance read right afterwards is the previous      *)
(* balance minus the cost.                                                 *)
C3_ConsumeExact ==
    lastOp.op = "consume" =>
        IF lastOp.arg > lastOp.before
        THEN lastOp.ret = FALSE /\ buckets = lastOp.pre
        ELSE lastOp.ret = TRUE /\ getTokens(lastOp.id) = lastOp.before - lastOp.arg

(* C4: for every account index, getTokens is within [0, maxTokens] after  *)
(* any sequence of consume and refund calls and elapsed time, an index     *)
(* never touched included.                                                 *)
C4_TokensWithinBounds ==
    \A a \in AccountIds : 0 <= getTokens(a) /\ getTokens(a) <= tokenConfig.maxTokens

(* The account of the snapshot with a given index, its base score, and    *)
(* whether it passes the four filters, written out independently of the    *)
(* selection operators.                                                    *)
AccountOf(index) == accounts[CHOOSE k \in 1 .. Len(accounts) : accounts[k].index = index]

PassesFilters(index) ==
    /\ \E k \in 1 .. Len(accounts) : accounts[k].index = index
    /\ AccountOf(index).isRateLimited = FALSE
    /\ AccountOf(index).isCoolingDown = FALSE
    /\ AccountOf(index).healthScore >= DefaultMinHealthScore
    /\ getTokens(index) >= 1

BaseScoreOf(index) ==
    calculateHybridScore(
        [lastUsed |-> AccountOf(index).lastUsed,
         healthScore |-> AccountOf(index).healthScore,
         tokens |-> getTokens(index)], getMaxTokens)

Selected == lastOp.op = "selectHybridAccount"

(* C5: selectHybridAccount never returns an account that is rate-limited, *)
(* cooling down, below minHealthScore or without a token, and returns null *)
(* exactly when no account passes the four filters.                        *)
C5_OnlyFilteredAccounts ==
    Selected =>
        /\ lastOp.id # NullIndex => PassesFilters(lastOp.id)
        /\ lastOp.id = NullIndex <=> ~(\E a \in AccountIds : PassesFilters(a))

(* The current account has no token left and another account was chosen. *)
C5_Witness ==
    /\ Selected
    /\ lastOp.arg # NullIndex
    /\ getTokens(lastOp.arg) < 1
    /\ AccountOf(lastOp.arg).healthScore = 100
    /\ lastOp.id # NullIndex
    /\ lastOp.id # lastOp.arg

(* C6: when the current account passes the filters, another account is    *)
(* returned only if its base score exceeds the current account's by at     *)
(* least 100; when every challenger is within 100, the current account is  *)
(* returned.                                                               *)
C6_SwitchNeedsThreshold ==
    (Selected /\ lastOp.arg # NullIndex /\ PassesFilters(lastOp.arg)) =>
        /\ lastOp.id # lastOp.arg =>
              BaseScoreOf(lastOp.id) - BaseScoreOf(lastOp.arg)
                  >= 100 * ScoreUnit(getMaxTokens)
        /\ (\A a \in AccountIds :
               (a # lastOp.arg /\ PassesFilters(a)) =>
                   BaseScoreOf(a) - BaseScoreOf(lastOp.arg) < 100 * ScoreUnit(getMaxTokens))
              => lastOp.id = lastOp.arg

(* The current account was kept although a challenger scores higher. *)
C6_Witness ==
    /\ Selected
    /\ lastOp.arg # NullIndex
    /\ PassesFilters(lastOp.arg)
    /\ lastOp.id = lastOp.arg
    /\ \E a \in AccountIds :
          /\ a # lastOp.arg
          /\ PassesFilters(a)
          /\ BaseScoreOf(a) > BaseScoreOf(lastOp.arg)

(* C7: for a fixed snapshot, feeding the result back as the current       *)
(* account is a fixed point, whatever the current account was.             *)
C7_SelectionIsFixedPoint ==
    /\ \A c \in AccountIds \cup {NullIndex} :
          LET r == selectHybridAccount(accounts, c, DefaultMinHealthScore)
          IN  selectHybridAccount(accounts, r, DefaultMinHealthScore) = r
    /\ Selected =>
          selectHybridAccount(accounts, lastOp.id, DefaultMinHealthScore) = lastOp.id

(* The account a request moved to, off a selectable current account, was  *)
(* passed as the current account and returned again.                       *)
C7_Witness ==
    /\ Selected
    /\ lastOp.id # NullIndex
    /\ lastOp.arg = lastOp.id
    /\ \E c \in AccountIds :
          /\ c # lastOp.id
          /\ PassesFilters(c)
          /\ selectHybridAccount(accounts, c, DefaultMinHealthScore) = lastOp.id

(* C8: with no current account, among candidates of equal health score    *)
(* and equal token balance but different lastUsed, the one with the        *)
(* smallest lastUsed is returned.                                          *)
C8_MostRestedWins ==
    LET cands == {a \in AccountIds : PassesFilters(a)}
    IN  ( /\ Selected
          /\ lastOp.arg = NullIndex
          /\ Cardinality(cands) >= 2
          /\ \A a \in cands, b \in cands :
                /\ AccountOf(a).healthScore = AccountOf(b).healthScore
                /\ getTokens(a) = getTokens(b)
                /\ a # b => AccountOf(a).lastUsed # AccountOf(b).lastUsed )
        => \A b \in cands : AccountOf(lastOp.id).lastUsed <= AccountOf(b).lastUsed

(* The entry of an account is in the map m and older than the TTL. *)
EntryExpired(m, accountIndex) ==
    /\ MapHas(m, accountIndex)
    /\ now - m[accountIndex].fetchedAt > guardConfig.quotaCacheTtlSeconds * 1000

(* C9 as stated: when fetchQuota throws, preflightQuotaCheck returns      *)
(* {shouldSwitch: false, remainingPercent: null} instead of throwing,      *)
(* fetchQuota was called once, and the call left the cache unchanged: its  *)
(* lookup deleted nothing and its catch wrote nothing.                     *)
C9_FetchFailureLeavesCache ==
    /\ \A t \in Tasks :
          (pc[t] = "done" /\ task[t].fetched = "threw") =>
              /\ task[t].result[1].kind = "return"
              /\ task[t].result[1].shouldSwitch = FALSE
              /\ task[t].result[1].remainingPercent = << >>
              /\ task[t].fetches = 1
              /\ ~task[t].evicted
    /\ lastOp.op = "fetchRejected" => cache = lastOp.pre

(* C9, amended: when fetchQuota throws, preflightQuotaCheck returns       *)
(* {shouldSwitch: false, remainingPercent: null} instead of throwing and   *)
(* fetchQuota was called once.  The call stores nothing in the cache: its  *)
(* catch leaves the cache as it was, and its lookup changes the cache only *)
(* by deleting the entry of its own account when that entry has expired,   *)
(* which it does exactly when there is such an entry.                      *)
C9_FetchFailureSwallowed ==
    /\ \A t \in Tasks :
          (pc[t] = "done" /\ task[t].fetched = "threw") =>
              /\ task[t].result[1].kind = "return"
              /\ task[t].result[1].shouldSwitch = FALSE
              /\ task[t].result[1].remainingPercent = << >>
              /\ task[t].fetches = 1
    /\ lastOp.op = "fetchRejected" => cache = lastOp.pre
    /\ lastOp.op = "preflightStart" =>
          /\ cache = IF EntryExpired(lastOp.pre, lastOp.id)
                     THEN MapDelete(lastOp.pre, lastOp.id)
                     ELSE lastOp.pre
          /\ pc[lastOp.arg] = "fetching" =>
                (task[lastOp.arg].evicted <=> EntryExpired(lastOp.pre, lastOp.id))

(* A check found the expired entry of its account, deleted it, and its    *)
(* fetch failed: the call returned, and the cache is not as it was.        *)
C9_Witness ==
    /\ lastOp.op = "fetchRejected"
    /\ \E t \in Tasks :
          /\ pc[t] = "done"
          /\ task[t].fetched = "threw"
          /\ task[t].evicted
          /\ task[t].result[1] = NoSwitch(<< >>)

(* C10: shouldSwitch is true exactly when a quota is available (cached or *)
(* fetched) whose minimum remaining percent is defined and is at most      *)
(* switchRemainingPercent; the reason is present exactly when shouldSwitch *)
(* is true.                                                                *)
C10_SwitchIffAtOrBelowThreshold ==
    \A t \in Tasks :
        pc[t] = "done" =>
            LET r == task[t].result[1]
                q == task[t].quota
            IN  /\ r.shouldSwitch <=>
                      /\ q # << >>
                      /\ \E g \in DOMAIN q[1] :
                            /\ q[1][g] # Undefined
                            /\ \A h \in DOMAIN q[1] :
                                  q[1][h] # Undefined => q[1][g] <= q[1][h]
                            /\ (q[1][g] + 5) \div 10 <= guardConfig.switchRemainingPercent
                /\ (r.reason # << >>) <=> r.shouldSwitch

(* A cached quota exactly at the threshold made a second call switch. *)
C10_Witness ==
    \E t \in Tasks :
        /\ pc[t] = "done"
        /\ task[t].fetches = 0
        /\ task[t].result[1].shouldSwitch
        /\ task[t].result[1].remainingPercent = <<guardConfig.switchRemainingPercent>>

(* The cache holds an entry for the account that get would still return. *)
LiveEntry(c, accountIndex, t) ==
    /\ MapHas(c, accountIndex)
    /\ t - c[accountIndex].fetchedAt <= guardConfig.quotaCacheTtlSeconds * 1000

(* C11: while the cache holds an entry for the account within its TTL, a  *)
(* preflight check for that account ends at once with the verdict on the   *)
(* cached quota, leaves the cache as it is and calls fetchQuota zero       *)
(* times; and no step of any task puts a fetchQuota call for that account  *)
(* in flight, so that over the calls made within the TTL of a successful   *)
(* fetch the fetch that filled the cache is the only one.                  *)
C11_LiveEntryAnswersWithoutFetch ==
    [][\A a \in AccountIds :
          LiveEntry(cache, a, now) =>
             /\ \A t \in Tasks :
                   PreflightStart(t, a) =>
                      /\ pc'[t] = "done"
                      /\ task'[t].fetches = 0
                      /\ task'[t].fetched = "none"
                      /\ task'[t].quota = <<cache[a].quota>>
                      /\ task'[t].result = <<preflightVerdict(<<cache[a].quota>>)>>
                      /\ cache' = cache
             /\ \A t \in Tasks :
                   (pc'[t] = "fetching" /\ task'[t].account = a)
                      => (pc[t] = "fetching" /\ task[t].account = a)]_vars

(* A check answered from an entry exactly as old as the TTL. *)
C11_Witness ==
    /\ lastOp.op = "preflightStart"
    /\ MapHas(lastOp.pre, lastOp.id)
    /\ now - lastOp.pre[lastOp.id].fetchedAt = guardConfig.quotaCacheTtlSeconds * 1000
    /\ \E t \in Tasks :
          /\ pc[t] = "done"
          /\ task[t].account = lastOp.id
          /\ task[t].fetches = 0
          /\ task[t].quota = <<lastOp.pre[lastOp.id].quota>>

(* Two checks of one account are in flight together: a cache stampede. *)
Stampede(t, u) ==
    /\ t # u
    /\ pc[t] = "fetching"
    /\ pc[u] = "fetching"
    /\ task[t].account = task[u].account

(* C12: two preflight checks of one account that both read the cache      *)
(* before either fetch completes each have their own fetchQuota call in    *)
(* flight, and neither waits for the other: each can complete whatever the *)
(* other does.  When a fetch completes with a quota the cache holds        *)
(* exactly that quota, stamped with the current time, whatever another     *)
(* call wrote before; and every completed call returned a result, none     *)
(* threw.                                                                  *)
C12_StampedeIsBenign ==
    /\ \A t, u \in Tasks :
          Stampede(t, u) =>
             /\ task[t].fetches = 1
             /\ task[u].fetches = 1
             /\ steps < MaxSteps =>
                   /\ ENABLED (\E q \in FetchedQuotas : FetchResolved(t, q))
                   /\ ENABLED (\E q \in FetchedQuotas : FetchResolved(u, q))
    /\ lastOp.op = "fetchResolved" =>
          /\ MapHas(cache, lastOp.id)
          /\ cache[lastOp.id] =
                [quota |-> task[lastOp.arg].quota[1], fetchedAt |-> now]
    /\ \A t \in Tasks :
          pc[t] = "done" =>
             /\ task[t].result # << >>
             /\ task[t].result[1].kind = "return"

(* Both calls of a stampede have completed with different quotas, and the *)
(* cache holds the quota of the one that completed last.                   *)
C12_Witness ==
    /\ lastOp.op = "fetchResolved"
    /\ \E u \in Tasks :
          /\ u # lastOp.arg
          /\ pc[u] = "done"
          /\ pc[lastOp.arg] = "done"
          /\ task[u].account = lastOp.id
          /\ task[u].fetches = 1
          /\ task[lastOp.arg].fetches = 1
          /\ task[u].fetched = "value"
          /\ task[u].quota # task[lastOp.arg].quota
          /\ steps = MaxSteps
          /\ now = 0
          /\ cache[lastOp.id].quota = task[lastOp.arg].quota[1]

(* now - fetchedAt <= ttl for the last set(accountIndex, ...), if any. *)
LastSetWithinTtl(accountIndex) ==
    /\ history.lastSet[accountIndex] # << >>
    /\ now - history.lastSet[accountIndex][1].at
          <= guardConfig.quotaCacheTtlSeconds * 1000

(* C13: get(id) returns the quota of the most recent set(id, q) and       *)
(* leaves the cache as it is whenever that set is at most ttl old, the     *)
(* boundary included; otherwise it returns null and the cache holds no     *)
(* entry for id afterwards.  An id without an entry was never set or its   *)
(* last set is older than ttl, so get keeps returning null for it until    *)
(* the next set.                                                           *)
C13_GetFollowsLastSet ==
    /\ lastOp.op = "get" =>
          IF LastSetWithinTtl(lastOp.id)
          THEN /\ lastOp.ret = <<history.lastSet[lastOp.id][1].quota>>
               /\ cache = lastOp.pre
          ELSE /\ lastOp.ret = << >>
               /\ cache = MapDelete(lastOp.pre, lastOp.id)
               /\ ~MapHas(cache, lastOp.id)
    /\ \A a \in AccountIds : ~MapHas(cache, a) => ~LastSetWithinTtl(a)

(* A get at exactly the TTL boundary that returned the stored quota. *)
C13_Witness ==
    /\ lastOp.op = "get"
    /\ lastOp.ret # << >>
    /\ history.lastSet[lastOp.id] # << >>
    /\ now - history.lastSet[lastOp.id][1].at = guardConfig.quotaCacheTtlSeconds * 1000

(* C14: a call of sortByLruWithHealth or selectHybridAccount leaves the   *)
(* health tracker's scores map, the token tracker's buckets map, both      *)
(* configurations and the clock as they were, so every score, failure      *)
(* count, balance and lastUpdated reads the same after the call as before; *)
(* and it leaves the account array it was given with the same elements in  *)
(* the same order.                                                         *)
C14_SelectionReadsOnly ==
    [][lastOp'.op \in {"sortByLruWithHealth", "selectHybridAccount"} =>
          /\ scores' = scores
          /\ buckets' = buckets
          /\ healthConfig' = healthConfig
          /\ tokenConfig' = tokenConfig
          /\ now' = now
          /\ accounts' = accounts]_vars

(* A sort whose result is in another order than the array it was given. *)
C14_Witness ==
    /\ lastOp.op = "sortByLruWithHealth"
    /\ Len(lastOp.ret) = 2
    /\ lastOp.ret[1].index = 1
    /\ lastOp.pre = accounts
    /\ buckets # EmptyMap

(* The snapshot's accounts that pass the filters of the last sort call. *)
LruPassing ==
    { i \in 1 .. Len(accounts) :
         /\ accounts[i].isRateLimited = FALSE
         /\ accounts[i].isCoolingDown = FALSE
         /\ accounts[i].healthScore >= lastOp.arg }

(* C15: sortByLruWithHealth returns the accounts of its input that are    *)
(* not rate limited, not cooling down and of health at least               *)
(* minHealthScore: every such account once, no other element, whatever    *)
(* the lastUsed values; the result is empty when no account passes.        *)
C15_SortKeepsExactlyTheEligible ==
    lastOp.op = "sortByLruWithHealth" =>
       /\ Len(lastOp.ret) = Cardinality(LruPassing)
       /\ { lastOp.ret[k] : k \in 1 .. Len(lastOp.ret) }
             = { accounts[i] : i \in LruPassing }

(* The least recently used account is cooling down and left out. *)
C15_Witness ==
    /\ lastOp.op = "sortByLruWithHealth"
    /\ Len(lastOp.ret) = 1
    /\ \E i \in 1 .. Len(accounts) :
          /\ accounts[i].isCoolingDown
          /\ accounts[i].lastUsed < lastOp.ret[1].lastUsed

(* C16: in the list sortByLruWithHealth returns, every element is         *)
(* followed by one used later, or used at the same time and of no higher   *)
(* health score.                                                           *)
C16_SortedByLruThenHealth ==
    lastOp.op = "sortByLruWithHealth" =>
       \A k \in 1 .. Len(lastOp.ret) - 1 :
          \/ lastOp.ret[k].lastUsed < lastOp.ret[k + 1].lastUsed
          \/ /\ lastOp.ret[k].lastUsed = lastOp.ret[k + 1].lastUsed
             /\ lastOp.ret[k].healthScore >= lastOp.ret[k + 1].healthScore

(* Two accounts used at the same time: the healthier one, second in the   *)
(* input, comes first.                                                     *)
C16_Witness ==
    /\ lastOp.op = "sortByLruWithHealth"
    /\ Len(lastOp.ret) = 2
    /\ lastOp.ret[1].index = 1
    /\ lastOp.ret[1].lastUsed = lastOp.ret[2].lastUsed
    /\ lastOp.ret[1].healthScore > lastOp.ret[2].healthScore

(* C17: while a recordFailure that found the account without a state is   *)
(* the last report for it, getScore is the floored sum                     *)
(* max(0, initial + failurePenalty) + floor(t * recoveryRatePerHour), t    *)
(* the hours since that failure, capped at maxScore: a point is credited   *)
(* only once it is whole.                                                  *)
C17_RecoveryInWholePoints ==
    \A a \in AccountIds :
       history.freshFailureAt[a] # << >> =>
          getScore(a) =
             Min(healthConfig.maxScore,
                 Max(0, healthConfig.initial + healthConfig.failurePenalty)
                   + ((now - history.freshFailureAt[a][1])
                         * healthConfig.recoveryRatePerHour) \div (1000 * 60 * 60))

(* initial 70, penalty -10, rate 2 per hour: 60 is stored and 61 is read  *)
(* half an hour after the failure.                                         *)
C17_Witness ==
    \E a \in AccountIds :
       /\ history.freshFailureAt[a] # << >>
       /\ healthConfig.failurePenalty = -10
       /\ now - history.freshFailureAt[a][1] = 30 * 60 * 1000
       /\ getScore(a) = 61
       /\ scores[a].score = 60

(* The state the last call on the health tracker found for its account,   *)
(* and the score getScore read from it at the time of the call: the        *)
(* stored score plus the whole points recovered since lastUpdated, capped. *)
HadState == MapHas(lastOp.pre, lastOp.id)

ScoreAtCall ==
    IF HadState
    THEN Min(healthConfig.maxScore,
             lastOp.pre[lastOp.id].score
               + ((now - lastOp.pre[lastOp.id].lastUpdated)
                     * healthConfig.recoveryRatePerHour) \div (1000 * 60 * 60))
    ELSE healthConfig.initial

(* C18: recordSuccess(id) stores the score min(maxScore, s + successReward)*)
(* where s is what getScore(id) read at the call, recovery included, and   *)
(* stores consecutiveFailures 0 whatever the count was.                    *)
C18_SuccessRewardsAndClears ==
    lastOp.op = "recordSuccess" =>
       /\ lastOp.before = ScoreAtCall
       /\ scores[lastOp.id].score =
             Min(healthConfig.maxScore, ScoreAtCall + healthConfig.successReward)
       /\ scores[lastOp.id].consecutiveFailures = 0
       /\ getConsecutiveFailures(lastOp.id) = 0

(* A success after two failures and half an hour of recovery. *)
C18_Witness ==
    /\ lastOp.op = "recordSuccess"
    /\ HadState
    /\ lastOp.pre[lastOp.id].consecutiveFailures = 2
    /\ ScoreAtCall > lastOp.pre[lastOp.id].score
    /\ scores[lastOp.id].score = ScoreAtCall + healthConfig.successReward

(* C19: recordRateLimit(id) and recordFailure(id) store the score         *)
(* max(0, s + penalty), s what getScore(id) read at the call and penalty   *)
(* rateLimitPenalty or failurePenalty; they store one more consecutive     *)
(* failure than before and the lastSuccess that was there (0 for an        *)
(* account without a state).                                               *)
C19_PenaltyCountsAndKeepsLastSuccess ==
    lastOp.op \in {"recordRateLimit", "recordFailure"} =>
       LET penalty == IF lastOp.op = "recordRateLimit"
                      THEN healthConfig.rateLimitPenalty
                      ELSE healthConfig.failurePenalty
       IN  /\ lastOp.before = ScoreAtCall
           /\ scores[lastOp.id].score = Max(0, ScoreAtCall + penalty)
           /\ scores[lastOp.id].consecutiveFailures =
                 (IF HadState THEN lastOp.pre[lastOp.id].consecutiveFailures ELSE 0) + 1
           /\ scores[lastOp.id].lastSuccess =
                 (IF HadState THEN lastOp.pre[lastOp.id].lastSuccess ELSE 0)

(* A failure that would take the score below zero, after a success at a   *)
(* later time than 0: the score is 0 and lastSuccess is kept.              *)
C19_Witness ==
    /\ lastOp.op = "recordFailure"
    /\ HadState
    /\ lastOp.pre[lastOp.id].lastSuccess > 0
    /\ ScoreAtCall + healthConfig.failurePenalty < 0
    /\ scores[lastOp.id].score = 0
    /\ scores[lastOp.id].lastSuccess = lastOp.pre[lastOp.id].lastSuccess

(* C20: whatever the order in which the tasks' reports for an account     *)
(* land, getConsecutiveFailures is the number of rate limits and failures  *)
(* reported for it to the health tracker in place since the last success   *)
(* or reset, and each report moves the score by its own reward or penalty, *)
(* once, from the score read at the call, within 0 and maxScore.           *)
C20_ReportsNeverLost ==
    /\ \A a \in AccountIds : getConsecutiveFailures(a) = history.failures[a]
    /\ lastOp.op \in {"recordSuccess", "recordRateLimit", "recordFailure"} =>
          LET delta == CASE lastOp.op = "recordSuccess" -> healthConfig.successReward
                         [] lastOp.op = "recordRateLimit" -> healthConfig.rateLimitPenalty
                         [] OTHER -> healthConfig.failurePenalty
          IN  getScore(lastOp.id) =
                 Min(healthConfig.maxScore, Max(0, ScoreAtCall + delta))

(* A failure for an account lands, and is counted, while another task's   *)
(* request for the same account is still in flight.                        *)
C20_Witness ==
    /\ lastOp.op = "recordFailure"
    /\ getConsecutiveFailures(lastOp.id) = 1
    /\ getScore(lastOp.id) = healthConfig.initial + healthConfig.failurePenalty
    /\ \E t, u \in Tasks :
          /\ pc[t] = "reported"
          /\ pc[u] = "awaiting"
          /\ task[t].account = lastOp.id
          /\ task[u].account = lastOp.id

(* C21: once failure_ttl_seconds have passed since the last rate limit or *)
(* failure recorded for an account, getConsecutiveFailures reads 0 for it. *)
C21_FailuresExpire ==
    \A a \in AccountIds :
       (/\ history.lastFailureAt[a] # << >>
        /\ now - history.lastFailureAt[a][1] >= FAILURE_TTL_SECONDS * 1000)
          => getConsecutiveFailures(a) = 0

(* C22: isUsable(id) is getScore(id) >= minUsable at all times; and once  *)
(* the reports of rate limits and failures have stopped, every account     *)
(* they left a state for is eventually usable and usable from then on,     *)
(* through the passing of time alone.                                      *)
C22_RecoversThroughTimeAlone ==
    /\ [](\A a \in AccountIds :
             isUsable(a) <=> getScore(a) >= healthConfig.minUsable)
    /\ \A a \in AccountIds :
          [](steps = MaxSteps => <>[](MapHas(scores, a) => isUsable(a)))

(* An account whose last failure left a stored score below minUsable and  *)
(* that is usable again with no report since.                              *)
C22_Witness ==
    \E a \in AccountIds :
       /\ MapHas(scores, a)
       /\ scores[a].score < healthConfig.minUsable
       /\ history.lastFailureAt[a] = <<scores[a].lastUpdated>>
       /\ steps = MaxSteps
       /\ now > scores[a].lastUpdated
       /\ isUsable(a)

(* Tokens regenerated for a bucket between its lastUpdated and time t. *)
RegeneratedBy(accountIndex, t) ==
    ((t - buckets[accountIndex].lastUpdated) * tokenConfig.regenerationRatePerMinute)
        \div (1000 * 60)

(* C23: over a step with no consume and no refund, which leaves the       *)
(* buckets map as it was, the balance read after is not below the balance  *)
(* read before; for an account with a stored bucket it is                  *)
(* min(maxTokens, stored + minutes elapsed * regenerationRatePerMinute),   *)
(* and it is maxTokens once the regenerated tokens cover what the stored   *)
(* balance lacks, and from then on.                                        *)
C23_RegenerationMonotonicAndCapped ==
    [][buckets' = buckets =>
          \A a \in AccountIds :
             /\ getTokensAt(a, now') >= getTokensAt(a, now)
             /\ MapHas(buckets, a) =>
                   /\ getTokensAt(a, now') =
                         Min(tokenConfig.maxTokens,
                             buckets[a].tokens + RegeneratedBy(a, now'))
                   /\ getTokensAt(a, now') <= tokenConfig.maxTokens
                   /\ getTokensAt(a, now) = tokenConfig.maxTokens
                         => getTokensAt(a, now') = tokenConfig.maxTokens
                   /\ buckets[a].tokens + RegeneratedBy(a, now') >= tokenConfig.maxTokens
                         => getTokensAt(a, now') = tokenConfig.maxTokens]_vars

(* initial 50, max 50, rate 6: consume(30) left 20 and five minutes later *)
(* the balance is 50.                                                      *)
C23_Witness ==
    \E a \in AccountIds :
       /\ MapHas(buckets, a)
       /\ buckets[a].tokens = 20
       /\ tokenConfig = DEFAULT_TOKEN_BUCKET_CONFIG
       /\ now - buckets[a].lastUpdated = 5 * 60 * 1000
       /\ getTokens(a) = 50
       /\ lastOp = NoOp

(* The balance getTokens read for the account of the last call on the     *)
(* token tracker, at the time of the call, from the buckets it found.      *)
TokensAtCall ==
    IF MapHas(lastOp.pre, lastOp.id)
    THEN Min(tokenConfig.maxTokens,
             lastOp.pre[lastOp.id].tokens
               + ((now - lastOp.pre[lastOp.id].lastUpdated)
                     * tokenConfig.regenerationRatePerMinute) \div (1000 * 60))
    ELSE tokenConfig.initialTokens

(* C24: after refund(id, amount) the balance stored and read for id is    *)
(* min(maxTokens, b + amount), b the balance read at the call: never more  *)
(* than maxTokens, also for an account that was full or had no bucket.     *)
C24_RefundAddsUpToMax ==
    lastOp.op = "refund" =>
       /\ lastOp.before = TokensAtCall
       /\ buckets[lastOp.id].tokens =
             Min(tokenConfig.maxTokens, TokensAtCall + lastOp.arg)
       /\ getTokens(lastOp.id) =
             Min(tokenConfig.maxTokens, TokensAtCall + lastOp.arg)
       /\ getTokens(lastOp.id) <= tokenConfig.maxTokens

(* A refund to an account that had no bucket and read full. *)
C24_Witness ==
    /\ lastOp.op = "refund"
    /\ ~MapHas(lastOp.pre, lastOp.id)
    /\ TokensAtCall = tokenConfig.maxTokens
    /\ getTokens(lastOp.id) = tokenConfig.maxTokens

(* The calls that name one account. *)
PerAccountOps ==
    {"consume", "refund", "recordSuccess", "recordRateLimit", "recordFailure", "reset"}

(* C25: consume, refund, recordSuccess, recordRateLimit, recordFailure    *)
(* and reset on one account leave the token balance, the health score and  *)
(* consecutiveFailures read for every other account as they were, and an   *)
(* account that had tokens for a cost still has them.                      *)
C25_OtherAccountsUntouched ==
    [][lastOp'.op \in PerAccountOps =>
          \A b \in AccountIds \ {lastOp'.id} :
             /\ getTokens(b)' = getTokens(b)
             /\ getScore(b)' = getScore(b)
             /\ getConsecutiveFailures(b)' = getConsecutiveFailures(b)
             /\ hasTokens(b, TrackerCost) => hasTokens(b, TrackerCost)']_vars

(* An account's bucket is exhausted, its consume refused, while another   *)
(* account with a bucket and a health state of its own still has tokens.   *)
C25_Witness ==
    /\ lastOp.op = "consume" /\ ~lastOp.ret
    /\ ~hasTokens(lastOp.id, TrackerCost)
    /\ \E b \in AccountIds \ {lastOp.id} :
          /\ MapHas(buckets, b) /\ MapHas(scores, b)
          /\ getConsecutiveFailures(b) = 1
          /\ hasTokens(b, TrackerCost)

(* C26: right after reset(id) the tracker holds nothing for id: getScore  *)
(* returns the configured initial score and getConsecutiveFailures 0, as   *)
(* for an account never recorded, whatever was recorded before.            *)
C26_ResetForgets ==
    lastOp.op = "reset" =>
       /\ ~MapHas(scores, lastOp.id)
       /\ getScore(lastOp.id) = healthConfig.initial
       /\ getConsecutiveFailures(lastOp.id) = 0
       /\ isUsable(lastOp.id) <=> healthConfig.initial >= healthConfig.minUsable

(* A reset of an account that two reports had brought below initial. *)
C26_Witness ==
    /\ lastOp.op = "reset"
    /\ MapHas(lastOp.pre, lastOp.id)
    /\ lastOp.pre[lastOp.id].consecutiveFailures = 2
    /\ lastOp.before < healthConfig.initial
    /\ getScore(lastOp.id) = healthConfig.initial

(* C27: getSnapshot has an entry for exactly the accounts with a record*  *)
(* call since their last reset, each with the score getScore returns and   *)
(* the current consecutiveFailures; a getSnapshot or getScore call leaves  *)
(* the tracker's state, and so every later reading, as it was.             *)
C27_SnapshotOfRecordedAccounts ==
    /\ [](/\ DOMAIN getSnapshot = {a \in AccountIds : history.recorded[a]}
          /\ \A a \in DOMAIN getSnapshot :
                /\ getSnapshot[a].score = getScore(a)
                /\ getSnapshot[a].score =
                      Min(healthConfig.maxScore,
                          scores[a].score
                            + ((now - scores[a].lastUpdated) * healthConfig.recoveryRatePerHour)
                                 \div (1000 * 60 * 60))
                /\ getSnapshot[a].consecutiveFailures = scores[a].consecutiveFailures)
    /\ [][lastOp'.op \in {"getSnapshot", "getScore"} =>
             /\ scores' = scores
             /\ \A a \in AccountIds : getScore(a)' = getScore(a)
             /\ getSnapshot' = getSnapshot]_vars

(* A snapshot taken after a failure and some hours: the entry carries the *)
(* recovered score, above the stored one, and the other account, never     *)
(* recorded, has no entry.                                                 *)
C27_Witness ==
    /\ lastOp.op = "getSnapshot"
    /\ \E a \in DOMAIN getSnapshot :
          /\ getSnapshot[a].score > scores[a].score
          /\ getSnapshot[a].consecutiveFailures = 1
    /\ \E b \in AccountIds : b \notin DOMAIN getSnapshot

(* C28: after invalidate(id), get(id) returns null and get returns for    *)
(* every other account what it returned before; after clear(), get         *)
(* returns null for every account; set on one account leaves what get      *)
(* returns for every other account as it was.                              *)
C28_InvalidateClearSetPerAccount ==
    [][/\ lastOp'.op = "invalidate" =>
             /\ \A a \in {lastOp'.id} : (cacheGet(a).value)' = << >>
             /\ \A b \in AccountIds \ {lastOp'.id} :
                    (cacheGet(b).value)' = cacheGet(b).value
       /\ lastOp'.op = "clear" =>
             \A a \in AccountIds : (cacheGet(a).value)' = << >>
       /\ lastOp'.op = "set" =>
             \A b \in AccountIds \ {lastOp'.id} :
                (cacheGet(b).value)' = cacheGet(b).value]_vars

(* An invalidate of a live entry while another account's entry, set to a  *)
(* different quota, is still readable.                                     *)
C28_Witness ==
    /\ lastOp.op = "invalidate"
    /\ MapHas(lastOp.pre, lastOp.id)
    /\ cacheGet(lastOp.id).value = << >>
    /\ \E b \in AccountIds \ {lastOp.id} :
          /\ cacheGet(b).value # << >>
          /\ cacheGet(b).value[1] # lastOp.pre[lastOp.id].quota

(* The fractions the groups of a summary define. *)
DefinedFractions(quota) ==
    {quota[g] : g \in {h \in DOMAIN quota : quota[h] # Undefined}}

(* C29: calculateMinRemainingPercent returns null exactly when no group   *)
(* defines a fraction; otherwise it returns a whole percentage nearest to  *)
(* 100 times the least defined fraction, groups without a fraction being   *)
(* ignored: {0.10, 0.04, 0.20} gives 4, 0.045 gives 5, 0 gives 0 and 1.0   *)
(* gives 100.                                                              *)
C29_RoundedMinimumPercent ==
    lastOp.op = "calculateMinRemainingPercent" =>
       LET defined == DefinedFractions(lastOp.pre)
       IN  /\ lastOp.ret = << >> <=> defined = {}
           /\ defined # {} =>
                 \E m \in defined :
                    /\ \A x \in defined : m <= x
                    /\ 10 * lastOp.ret[1] - 5 <= m
                    /\ m <= 10 * lastOp.ret[1] + 5
                    /\ m % 10 # 5 => 10 * lastOp.ret[1] + 5 # m
                    /\ m = 40 => lastOp.ret[1] = 4
                    /\ m = 45 => lastOp.ret[1] = 5
                    /\ m = 0 => lastOp.ret[1] = 0
                    /\ m = 1000 => lastOp.ret[1] = 100

(* The three groups at 0.10, 0.04 and 0.20 gave 4. *)
C29_Witness ==
    /\ lastOp.op = "calculateMinRemainingPercent"
    /\ DOMAIN lastOp.pre = PercentGroups
    /\ lastOp.pre["claude"] = 100
    /\ lastOp.pre["geminiPro"] = 40
    /\ lastOp.pre["geminiFlash"] = 200
    /\ lastOp.ret = <<4>>

(* The positions of the snapshot that pass the four filters. *)
PrioritySurvivors(minHealth) ==
    {i \in 1 .. Len(accounts) :
        /\ ~accounts[i].isRateLimited
        /\ ~accounts[i].isCoolingDown
        /\ accounts[i].healthScore >= minHealth
        /\ getTokens(accounts[i].index) >= 1}

(* C30: whatever the draw, selectPriorityQueueAccount returns the index   *)
(* of an account that is not rate-limited, not cooling down, of            *)
(* healthScore >= minHealth and with tokens, and it returns null exactly   *)
(* when no account passes those filters.                                   *)
C30_PriorityQueueReturnsSurvivor ==
    lastOp.op = "selectPriorityQueueAccount" =>
       /\ lastOp.id = NullIndex <=> PrioritySurvivors(lastOp.arg) = {}
       /\ lastOp.id # NullIndex =>
             \E i \in PrioritySurvivors(lastOp.arg) : accounts[i].index = lastOp.id

(* A draw that landed on a survivor of lesser weight than another. *)
C30_Witness ==
    /\ lastOp.op = "selectPriorityQueueAccount"
    /\ \E i, j \in PrioritySurvivors(lastOp.arg) :
          /\ accounts[i].index = lastOp.id
          /\ accounts[j].healthScore * getTokens(accounts[j].index)
                > accounts[i].healthScore * getTokens(accounts[i].index)

(* The time the request of the wait specification has waited so far. *)
WaitedMs == now - task[FirstTask].startedAt

(* The deadline of the wait, and the longest sleep of one poll. *)
WaitDeadline == task[FirstTask].startedAt + task[FirstTask].maxWaitSeconds * 1000
LongestPollMs == pollSleepMs(RandomUnits - 1)

(* No account can become available within the bound. *)
NoneWithinBound ==
    \A a \in AccountIds : task[FirstTask].resetAt[a] > WaitDeadline

C32_JitterWithinFactor ==
    lastOp.op = "addJitter" =>
       LET b == task[FirstTask].baseMs
           f == task[FirstTask].jitterFactor
       IN  /\ lastOp.ret >= 0
           /\ 100 * BaseScale * lastOp.ret >= b * (100 - f)
           /\ 100 * BaseScale * lastOp.ret <= b * (100 + f)

(* C32, amended: for every draw, and for every baseMs >= 0, whole or not,  *)
(* and factor from 0 up to but not 1, the result of addJitter is a         *)
(* non-negative integer no more than half a millisecond outside the        *)
(* interval from baseMs * (1 - jitterFactor) to baseMs * (1 + jitterFactor);*)
(* it is inside the interval when both ends of the interval are whole      *)
(* numbers: in [700, 1300] for addJitter(1000, 0.3).                       *)
C32_JitterWithinRoundedFactor ==
    lastOp.op = "addJitter" =>
       LET b == task[FirstTask].baseMs
           f == task[FirstTask].jitterFactor
           lowEnd == b * (100 - f)
           highEnd == b * (100 + f)
           unit == 100 * BaseScale
       IN  /\ lastOp.ret \in Nat
           /\ 2 * unit * lastOp.ret >= 2 * lowEnd - unit
           /\ 2 * unit * lastOp.ret <= 2 * highEnd + unit
           /\ (lowEnd % unit = 0 /\ highEnd % unit = 0) =>
                 /\ unit * lastOp.ret >= lowEnd
                 /\ unit * lastOp.ret <= highEnd
           /\ (b = 1000 * BaseScale /\ f = DEFAULT_JITTER_FACTOR) =>
                 (700 <= lastOp.ret /\ lastOp.ret <= 1300)

(* addJitter(0.5, 0) returned 1: the interval is the one point 0.5, and    *)
(* the result is the half millisecond above it.                            *)
C32_Witness ==
    /\ lastOp.op = "addJitter"
    /\ task[FirstTask].baseMs = 5
    /\ task[FirstTask].jitterFactor = 0
    /\ lastOp.ret = 1

(* C33: for a requested name ending in -low, -medium or -high,            *)
(* resolveModelWithTier reports that tier and an actualModel that no       *)
(* longer carries the suffix; "gemini-3-pro-high" gives actualModel        *)
(* "gemini-3-pro" with thinkingLevel "high", and                           *)
(* "claude-sonnet-4-5-thinking-low" gives actualModel                      *)
(* "claude-sonnet-4-5-thinking" with thinkingBudget 8192.                  *)
C33_TierSuffixRemoved ==
    lastOp.op = "resolveModelWithTier" =>
       LET requested == task[FirstTask].requestedModel
           tier == extractThinkingTierFromModel(requested)
       IN  /\ tier # << >> =>
                 /\ lastOp.ret.tier = tier
                 /\ lastOp.ret.actualModel # requested
                 /\ extractThinkingTierFromModel(lastOp.ret.actualModel) = << >>
           /\ requested = <<"gemini", "3", "pro", "high">> =>
                 /\ lastOp.ret.actualModel = <<"gemini", "3", "pro">>
                 /\ lastOp.ret.thinkingLevel = <<"high">>
           /\ requested = <<"claude", "sonnet", "4", "5", "thinking", "low">> =>
                 /\ lastOp.ret.actualModel = <<"claude", "sonnet", "4", "5", "thinking">>
                 /\ lastOp.ret.thinkingBudget = <<8192>>

(* The plugin list an update leaves for the list it found. *)
PluginListAfter(plugin) ==
    LET list == IF plugin = << >> THEN << >> ELSE plugin[1]
    IN  IF \E i \in 1 .. Len(list) : includesPluginName(list[i]) THEN list
        ELSE Append(list, PLUGIN_NAME)

(* C34: a successful updateOpencodeConfig on a configuration file leaves  *)
(* every other top-level key, every non-google provider and every other    *)
(* setting of provider.google as it found them, sets provider.google.models*)
(* to the plugin models, appends the plugin only when no entry names it    *)
(* and sets $schema only when it is missing; a second application leaves   *)
(* the file of the first; a read, parse or write error comes back as       *)
(* success false with an error.                                            *)
C34_UpdateTouchesOnlyItsKeys ==
    lastOp.op = "updateOpencodeConfig" =>
       LET old == lastOp.pre
           new == task[FirstTask].file
       IN  /\ (lastOp.ret.success /\ old.kind = "json") =>
                 /\ new.kind = "json"
                 /\ new.config.theme = old.config.theme
                 /\ new.config.schema =
                       (IF old.config.schema = << >> THEN <<SCHEMA_URL>>
                        ELSE old.config.schema)
                 /\ new.config.plugin = <<PluginListAfter(old.config.plugin)>>
                 /\ old.config.plugin \in {<< <<ForkPlugin>> >>, << <<BarePlugin>> >>} =>
                       new.config.plugin = old.config.plugin
                 /\ old.config.plugin = << <<ShortPlugin>> >> =>
                       new.config.plugin = << <<ShortPlugin, PLUGIN_NAME>> >>
                 /\ new.config.provider[1].google[1].models = <<OPENCODE_MODEL_DEFINITIONS>>
                 /\ old.config.provider # << >> =>
                       /\ new.config.provider[1].other = old.config.provider[1].other
                       /\ old.config.provider[1].google # << >> =>
                             new.config.provider[1].google[1].apiKey
                                = old.config.provider[1].google[1].apiKey
           /\ (lastOp.ret.success /\ lastOp.before >= 1) => new = old
           /\ ~lastOp.ret.success => lastOp.ret.error # << >>
           /\ old.kind = "invalid" => ~lastOp.ret.success

(* C35: whenever the first of the ranked candidates is not the current    *)
(* account while the current account is a candidate, its base score is     *)
(* above the current account's by at least STICKINESS_BONUS, which is more *)
(* than SWITCH_THRESHOLD; so selectHybridAccount always returns the first  *)
(* of the ranked candidates and never takes the keep-current return.       *)
C35_SwitchThresholdNeverDecides ==
    lastOp.op = "selectHybridAccount" =>
       LET scored == hybridScored(accounts, lastOp.arg, DefaultMinHealthScore)
       IN  /\ STICKINESS_BONUS >= SWITCH_THRESHOLD
           /\ Len(scored) > 0 =>
                 /\ lastOp.id = scored[1].index
                 /\ \A i \in 1 .. Len(scored) :
                       (scored[i].isCurrent /\ ~scored[1].isCurrent) =>
                          scored[1].baseScore - scored[i].baseScore
                             >= STICKINESS_BONUS * ScoreUnit(getMaxTokens)

(* A switch away from a current account that is still a candidate. *)
C35_Witness ==
    /\ lastOp.op = "selectHybridAccount"
    /\ lastOp.arg # NullIndex
    /\ lastOp.id # NullIndex
    /\ lastOp.id # lastOp.arg
    /\ LET scored == hybridScored(accounts, lastOp.arg, DefaultMinHealthScore)
       IN  \E i \in 1 .. Len(scored) : scored[i].isCurrent

(* C36: a fetchQuota result of null is no data: the check returns         *)
(* {shouldSwitch: false, remainingPercent: null} without a reason, the     *)
(* cache is left exactly as it was, and a preflight check of that account  *)
(* that follows, the account still without a cached quota, calls           *)
(* fetchQuota again.                                                       *)
C36_NullQuotaIsNoData ==
    /\ [](\A t \in Tasks :
            (pc[t] = "done" /\ task[t].fetched = "null") =>
                /\ task[t].result[1].kind = "return"
                /\ task[t].result[1].shouldSwitch = FALSE
                /\ task[t].result[1].remainingPercent = << >>
                /\ task[t].result[1].reason = << >>
                /\ task[t].quota = << >>)
    /\ [](lastOp.op = "fetchResolvedNull" => cache = lastOp.pre)
    /\ [][\A t \in Tasks, a \in AccountIds :
            ( /\ PreflightStart(t, a)
              /\ \E u \in Tasks : /\ pc[u] = "done"
                                  /\ task[u].fetched = "null"
                                  /\ task[u].account = a
              /\ ~MapHas(cache, a) )
            => (pc'[t] = "fetching" /\ task'[t].fetches = 1)]_vars

(* After one check of an account ended on a null result, another check of *)
(* the same account is fetching.                                           *)
C36_Witness ==
    /\ lastOp.op = "preflightStart"
    /\ pc[lastOp.arg] = "fetching"
    /\ cache = EmptyMap
    /\ \E u \in Tasks \ {lastOp.arg} :
          /\ pc[u] = "done"
          /\ task[u].fetched = "null"
          /\ task[u].account = lastOp.id

(* C37: consume followed at once by a refund of the same amount is a      *)
(* round trip: when consume(id, c) returned true from a balance between 0  *)
(* and maxTokens and refund(id, c) is the next call, no time elapsed, the  *)
(* balance read afterwards is the balance read before the consume.         *)
C37_ConsumeRefundRoundTrip ==
    [][\A a \in AccountIds, c \in Costs :
          ( /\ refund(a, c)
            /\ lastOp.op = "consume"
            /\ lastOp.id = a
            /\ lastOp.arg = c
            /\ lastOp.ret = TRUE
            /\ lastOp.before \in 0 .. tokenConfig.maxTokens )
          => /\ c <= lastOp.before
             /\ getTokens(a)' = lastOp.before
             /\ buckets'[a].tokens = lastOp.before]_vars

(* The two calls made first on an account of a tracker whose initial      *)
(* balance is within the maximum: the consume succeeded and the refund of  *)
(* the same amount restored the initial balance.                           *)
C37_Witness ==
    /\ steps = 2
    /\ lastOp.op = "refund"
    /\ admitted[lastOp.id] = 1
    /\ tokenConfig.initialTokens <= tokenConfig.maxTokens
    /\ MapHas(lastOp.pre, lastOp.id)
    /\ lastOp.pre[lastOp.id].tokens = tokenConfig.initialTokens - lastOp.arg
    /\ getTokens(lastOp.id) = tokenConfig.initialTokens

(* The call of select() the menu specification follows. *)
Menu == task[FirstTask]

(* The menu was shown: the call got as far as listening for keys. *)
MenuShown ==
    /\ pc[FirstTask] \in {"pending", "resolved"}
    /\ Cardinality(enabledItems(Menu.items)) >= 2
    /\ Menu.window # NoWindow

(* C38: in a menu that is shown at least two items are selectable; after  *)
(* any sequence of key events the cursor is the index of an item that is   *)
(* not disabled, not a separator and not a heading; the search an up or    *)
(* down key makes from it ends, on a selectable item; and an Enter that    *)
(* onKey handles settles the promise on the value of the item under the    *)
(* cursor, a selectable one.                                               *)
C38_CursorOnSelectableItem ==
    /\ pc[FirstTask] = "pending" => MenuShown
    /\ MenuShown =>
          /\ Menu.cursor \in enabledItems(Menu.items)
          /\ \A direction \in {-1, 1} :
                /\ findNextSelectable(Menu.items, Menu.cursor, direction) # NeverReturns
                /\ findNextSelectable(Menu.items, Menu.cursor, direction)
                       \in enabledItems(Menu.items) \ {Menu.cursor}
    /\ (lastOp.op = "onKey" /\ lastOp.ret /\ lastOp.arg = "enter") =>
          /\ Menu.cursor \in enabledItems(Menu.items)
          /\ Menu.resolveCalls = 1
          /\ Menu.settled = <<itemAt(Menu.items, Menu.cursor).value>>
          /\ Menu.settled = << <<Menu.cursor>> >>

(* Up from the first item wrapped around the end of the list, over an item *)
(* that cannot be selected, and Enter chose the item it stopped on.        *)
C38_Witness ==
    /\ MenuShown
    /\ steps = 2
    /\ lastOp.op = "onKey" /\ lastOp.ret /\ lastOp.arg = "enter"
    /\ findIndexSelectable(Menu.items) = 0
    /\ Menu.cursor = Len(Menu.items) - 2
    /\ ~isSelectable(itemAt(Menu.items, Len(Menu.items) - 1))
    /\ Cardinality(enabledItems(Menu.items)) >= 3
    /\ Menu.settled = << <<Menu.cursor>> >>

(* C39: when the list is longer than maxVisibleItems, the window render   *)
(* writes holds the cursor and lies inside the list:                       *)
(* 0 <= windowStart <= cursor < windowEnd <= items.length, and it is       *)
(* maxVisibleItems long; for every cursor position and terminal height.    *)
C39_WindowHoldsCursor ==
    /\ (lastOp.op = "render" /\ task[FirstTask].length > lastOp.ret.maxVisibleItems) =>
          /\ 0 <= lastOp.ret.windowStart
          /\ lastOp.ret.windowStart <= task[FirstTask].cursor
          /\ task[FirstTask].cursor < lastOp.ret.windowEnd
          /\ lastOp.ret.windowEnd <= task[FirstTask].length
          /\ lastOp.ret.windowEnd - lastOp.ret.windowStart = lastOp.ret.maxVisibleItems
    /\ lastOp.op = "render" =>
          lastOp.ret.maxVisibleItems \in 1 .. task[FirstTask].length

(* The cursor on the last item of a list longer than an even window: the   *)
(* window was moved back to end with the list.                             *)
C39_Witness ==
    /\ lastOp.op = "render"
    /\ task[FirstTask].length > lastOp.ret.maxVisibleItems
    /\ lastOp.ret.maxVisibleItems = 4
    /\ task[FirstTask].cursor = task[FirstTask].length - 1
    /\ lastOp.ret.windowStart = task[FirstTask].length - 4
    /\ lastOp.ret.windowStart > 0
    /\ lastOp.ret.windowEnd = task[FirstTask].length

(* The events that call resolve when their handler runs. *)
ResolvingEvent ==
    \/ lastOp.op = "onKey" /\ lastOp.ret /\ lastOp.arg \in {"enter", "escape"}
    \/ lastOp.op = "escapeTimeout"
    \/ lastOp.op = "onSignal" /\ lastOp.ret

(* C40: resolve is called once at most; Enter, Escape, the escape timer    *)
(* running out and SIGINT or SIGTERM, when their handler runs, settle the  *)
(* promise, all but Enter on null; a key that arrives while the escape     *)
(* timer is pending clears that timer, and unless it is Enter or Escape    *)
(* the promise stays pending; once the promise is resolved the key and     *)
(* signal listeners are removed and no timer is pending, and no later      *)
(* event calls resolve, changes the value or moves the cursor.             *)
C40_ResolvedExactlyOnce ==
    /\ [](pc[FirstTask] \in {"pending", "resolved"} =>
            /\ Menu.resolveCalls = (IF pc[FirstTask] = "resolved" THEN 1 ELSE 0)
            /\ Len(Menu.settled) = Menu.resolveCalls)
    /\ [](ResolvingEvent =>
            /\ pc[FirstTask] = "resolved"
            /\ (lastOp.op = "onKey" /\ lastOp.arg = "enter") \/ Menu.settled = << << >> >>)
    /\ [][\A action \in KeyActions :
            (KeyEvent(action) /\ pc[FirstTask] = "pending" /\ Menu.timerPending) =>
                /\ Menu.keyListener
                /\ action # "escape-start" => ~Menu'.timerPending /\ ~Menu'.escapeTimeout
                /\ action \in {"up", "down", "unknown", "escape-start"} =>
                      pc'[FirstTask] = "pending"]_vars
    /\ [](pc[FirstTask] = "resolved" =>
            /\ ~Menu.keyListener
            /\ Menu.signalListeners = {}
            /\ ~Menu.timerPending
            /\ ~Menu.escapeTimeout)
    /\ [][pc[FirstTask] = "resolved" =>
            /\ pc'[FirstTask] = "resolved"
            /\ Menu'.settled = Menu.settled
            /\ Menu'.resolveCalls = Menu.resolveCalls
            /\ Menu'.cursor = Menu.cursor
            /\ lastOp'.ret = FALSE]_vars

(* A bare escape was cancelled by an arrow key, Enter chose an item, and a *)
(* key that arrived afterwards found no listener.                          *)
C40_Witness ==
    /\ MenuShown
    /\ pc[FirstTask] = "resolved"
    /\ steps = 4
    /\ lastOp.op = "onKey" /\ ~lastOp.ret
    /\ Menu.resolveCalls = 1
    /\ Menu.settled = << <<Menu.cursor>> >>
    /\ Menu.cursor # findIndexSelectable(Menu.items)

====
